---- MODULE Spec2Model ----
(***************************************************************************)
(* Safe SQL gateway and execution log of tool_set.                         *)
(*                                                                         *)
(*   functions/db/db_funs.py   statement classifier and sql_query          *)
(*   utils/db/sql_db.py        per-thread connection registry, execute     *)
(*   utils/exe_log.py          per-thread execution logger, log backends   *)
(*   utils/output.py           per-thread output channel                   *)
(*                                                                         *)
(* Statement texts are sequences of one-character strings, so that the     *)
(* regular expressions of the classifier are computed character by         *)
(* character.                                                              *)
(***************************************************************************)
EXTENDS Integers, Sequences, FiniteSets, TLC

(***************************************************************************)
(* Bounds of the model.                                                    *)
(***************************************************************************)
\* number of lexemes a generated statement text is made of
MaxLexemes == 4

(***************************************************************************)
(* Characters and texts.                                                   *)
(***************************************************************************)
LowerLetters ==
    << "a", "b", "c", "d", "e", "f", "g", "h", "i", "j", "k", "l", "m",
       "n", "o", "p", "q", "r", "s", "t", "u", "v", "w", "x", "y", "z" >>

UpperLetters ==
    << "A", "B", "C", "D", "E", "F", "G", "H", "I", "J", "K", "L", "M",
       "N", "O", "P", "Q", "R", "S", "T", "U", "V", "W", "X", "Y", "Z" >>

Digits == { "0", "1", "2", "3", "4", "5", "6", "7", "8", "9" }

Range(f) == { f[i] : i \in DOMAIN f }

\* \w of the re module
IsWordChar(c) ==
    c \in Range(LowerLetters) \cup Range(UpperLetters) \cup Digits \cup { "_" }

\* \s of the re module, and the characters str.strip() removes
IsSpace(c) == c \in { " ", "\n", "\t", "\r" }

\* str.lower() on one character
LowerChar(c) ==
    IF c \in Range(UpperLetters)
    THEN LowerLetters[CHOOSE i \in 1..26 : UpperLetters[i] = c]
    ELSE c

\* str.lower()
lower(s) == [i \in 1..Len(s) |-> LowerChar(s[i])]

\* str.upper() on one character
UpperChar(c) ==
    IF c \in Range(LowerLetters)
    THEN UpperLetters[CHOOSE i \in 1..26 : LowerLetters[i] = c]
    ELSE c

\* str.upper()
upper(s) == [i \in 1..Len(s) |-> UpperChar(s[i])]

\* the text p occurs in s at position i
StartsAt(s, i, p) ==
    /\ i >= 1
    /\ i + Len(p) - 1 <= Len(s)
    /\ \A k \in 1..Len(p) : s[i + k - 1] = p[k]

\* str.startswith
startswith(s, p) == StartsAt(s, 1, p)

\* re.sub(r'/\*.*?\*/', '', s, flags=re.DOTALL): leftmost, non-greedy,
\* an opener without a closer after it is left in the text
RECURSIVE SubBlockFrom(_, _)
SubBlockFrom(s, i) ==
    IF i > Len(s) THEN << >>
    ELSE IF /\ StartsAt(s, i, << "/", "*" >>)
            /\ \E j \in (i + 2)..Len(s) : StartsAt(s, j, << "*", "/" >>)
         THEN LET j == CHOOSE j \in (i + 2)..Len(s) :
                          /\ StartsAt(s, j, << "*", "/" >>)
                          /\ \A k \in (i + 2)..(j - 1) :
                                 ~StartsAt(s, k, << "*", "/" >>)
              IN  SubBlockFrom(s, j + 2)
         ELSE << s[i] >> \o SubBlockFrom(s, i + 1)

strip_block_comments(s) == SubBlockFrom(s, 1)

\* re.sub(r'--.*$', '', s, flags=re.MULTILINE): from "--" up to, not
\* including, the next newline (or the end of the text)
RECURSIVE SubLineFrom(_, _)
SubLineFrom(s, i) ==
    IF i > Len(s) THEN << >>
    ELSE IF StartsAt(s, i, << "-", "-" >>)
         THEN LET e == IF \E j \in i..Len(s) : s[j] = "\n"
                       THEN CHOOSE j \in i..Len(s) :
                                /\ s[j] = "\n"
                                /\ \A k \in i..(j - 1) : s[k] # "\n"
                       ELSE Len(s) + 1
              IN  SubLineFrom(s, e)
         ELSE << s[i] >> \o SubLineFrom(s, i + 1)

strip_line_comments(s) == SubLineFrom(s, 1)

\* str.strip()
RECURSIVE lstrip(_)
lstrip(s) ==
    IF s # << >> /\ IsSpace(Head(s)) THEN lstrip(Tail(s)) ELSE s

RECURSIVE rstrip(_)
rstrip(s) ==
    IF s # << >> /\ IsSpace(s[Len(s)])
    THEN rstrip(SubSeq(s, 1, Len(s) - 1))
    ELSE s

strip(s) == rstrip(lstrip(s))

\* re.sub(r'\s+', ' ', s): every run of whitespace becomes one blank
RECURSIVE CollapseFrom(_, _)
CollapseFrom(s, i) ==
    IF i > Len(s) THEN << >>
    ELSE IF IsSpace(s[i])
         THEN IF i > 1 /\ IsSpace(s[i - 1])
              THEN CollapseFrom(s, i + 1)
              ELSE << " " >> \o CollapseFrom(s, i + 1)
         ELSE << s[i] >> \o CollapseFrom(s, i + 1)

collapse_whitespace(s) == CollapseFrom(s, 1)

\* re.search(r'\b' + keyword + r'\b', s)
search_word(s, keyword) ==
    \E i \in 1..Len(s) :
        /\ StartsAt(s, i, keyword)
        /\ (i = 1 \/ ~IsWordChar(s[i - 1]))
        /\ (i + Len(keyword) > Len(s) \/ ~IsWordChar(s[i + Len(keyword)]))

(***************************************************************************)
(* Statement classifier, functions/db/db_funs.py.                          *)
(***************************************************************************)
allowed_starts ==
    { << "s", "e", "l", "e", "c", "t" >>,
      << "w", "i", "t", "h" >>,
      << "e", "x", "p", "l", "a", "i", "n" >>,
      << "p", "r", "a", "g", "m", "a" >> }

forbidden_keywords ==
    { << "i", "n", "s", "e", "r", "t" >>,
      << "u", "p", "d", "a", "t", "e" >>,
      << "d", "e", "l", "e", "t", "e" >>,
      << "d", "r", "o", "p" >>,
      << "c", "r", "e", "a", "t", "e" >>,
      << "a", "l", "t", "e", "r" >>,
      << "t", "r", "u", "n", "c", "a", "t", "e" >>,
      << "g", "r", "a", "n", "t" >>,
      << "r", "e", "v", "o", "k", "e" >>,
      << "c", "o", "m", "m", "i", "t" >>,
      << "r", "o", "l", "l", "b", "a", "c", "k" >>,
      << "s", "a", "v", "e", "p", "o", "i", "n", "t" >>,
      << "r", "e", "l", "e", "a", "s", "e" >>,
      << "e", "x", "e", "c" >>,
      << "e", "x", "e", "c", "u", "t", "e" >>,
      << "c", "a", "l", "l" >>,
      << "d", "e", "c", "l", "a", "r", "e" >>,
      << "s", "e", "t" >>,
      << "b", "e", "g", "i", "n" >>,
      << "e", "n", "d" >> }

\* sql_lower of _is_query_only: block comments, then line comments, then
\* strip and whitespace, then lower case
sql_lower_of(sql) ==
    lower(collapse_whitespace(strip(
        strip_line_comments(strip_block_comments(sql)))))

\* the cleaned text holds a forbidden keyword as a whole word
has_forbidden_keyword(sql_lower) ==
    \E keyword \in forbidden_keywords : search_word(sql_lower, keyword)

\* the cleaned text starts with one of the allowed statement openers
has_allowed_start(sql_lower) ==
    \E start_word \in allowed_starts : startswith(sql_lower, start_word)

\* _is_query_only with "return True" as its last statement
is_query_only_default_allow(sql) ==
    LET sql_lower == sql_lower_of(sql)
    IN  IF has_allowed_start(sql_lower) THEN TRUE
        ELSE IF has_forbidden_keyword(sql_lower) THEN FALSE
        ELSE TRUE

_is_query_only(sql) ==
    LET sql_lower == sql_lower_of(sql)
    IN  IF has_allowed_start(sql_lower) THEN TRUE
        ELSE IF has_forbidden_keyword(sql_lower) THEN FALSE
        ELSE FALSE

(***************************************************************************)
(* Statement texts given to the classifier: every concatenation of at most *)
(* MaxLexemes of these pieces.                                             *)
(***************************************************************************)
Lexemes ==
    { << "s", "e", "l", "e", "c", "t" >>,
      << "S", "e", "l", "e", "c", "T" >>,
      << "w", "i", "t", "h" >>,
      << "d", "r", "o", "p" >>,
      << "D", "R", "O", "P" >>,
      << "t" >>,
      << " " >>,
      << "\n" >>,
      << ";" >>,
      << "/", "*" >>,
      << "*", "/" >>,
      << "-", "-" >> }

RECURSIVE Concat(_)
Concat(pieces) ==
    IF pieces = << >> THEN << >> ELSE Head(pieces) \o Concat(Tail(pieces))

Texts ==
    { Concat(pieces) :
        pieces \in UNION { [1..n -> Lexemes] : n \in 0..MaxLexemes } }

VARIABLES
    cls_sql,        \* the text handed to _is_query_only
    cls_verdict,    \* "none" before the call, then "allow" or "deny"
    requests,       \* the requests the dynamic endpoint has begun to serve
    writers         \* per thread, the system calls its open log file owes

\* no request has come in
NoRequests == << >>

\* the statements threads execute
SelectOne == << "S", "E", "L", "E", "C", "T", " ", "1" >>

StackedDrop ==
    << "s", "e", "l", "e", "c", "t", " ", "1", ";", " ", "d", "r", "o",
       "p", " ", "t", "a", "b", "l", "e", " ", "t" >>

DropTable == << "D", "R", "O", "P", " ", "T", "A", "B", "L", "E", " ", "t" >>

InsertOrder ==
    << "I", "N", "S", "E", "R", "T", " ", "I", "N", "T", "O", " ",
       "o", "r", "d", ".", "t", " ", "V", "A", "L", "U", "E", "S", " ",
       "(", "?", ")" >>

\* a statement on a database that db.config.json does not have
SelectEvents ==
    << "S", "E", "L", "E", "C", "T", " ", "*", " ", "F", "R", "O", "M", " ",
       "a", "n", "a", "l", "y", "t", "i", "c", "s", ".", "e", "v", "e", "n",
       "t", "s" >>

\* a select in lower case with whitespace around it
SelectPadded ==
    << " ", "s", "e", "l", "e", "c", "t", " ", "1", " " >>

\* a query that does not begin with the word select
WithQuery ==
    << "W", "I", "T", "H", " ", "x", " ", "A", "S", " ", "(", "S", "E", "L",
       "E", "C", "T", " ", "1", ")", " ", "S", "E", "L", "E", "C", "T", " ",
       "*", " ", "F", "R", "O", "M", " ", "x" >>

\* statements that show the layout of the database
ShowTables == << "S", "H", "O", "W", " ", "T", "A", "B", "L", "E", "S" >>

DescTable == << "D", "E", "S", "C", " ", "t" >>

DescribeTable == << "D", "E", "S", "C", "R", "I", "B", "E", " ", "t" >>

\* a select behind a line comment
CommentedSelect ==
    << "-", "-", "c", "\n", "S", "E", "L", "E", "C", "T", " ", "1" >>

PragmaTableInfo ==
    << "P", "R", "A", "G", "M", "A", " ", "t", "a", "b", "l", "e", "_", "i",
       "n", "f", "o", "(", "t", ")" >>

\* a statement argument that is not a str: the number 42
NotAString == << "42 (int)" >>

Statements ==
    { SelectOne, StackedDrop, DropTable, InsertOrder, SelectEvents,
      SelectPadded, WithQuery, ShowTables, DescTable, DescribeTable,
      CommentedSelect, PragmaTableInfo, NotAString }

(***************************************************************************)
(* Database name resolution, utils/db/sql_db.py.                           *)
(***************************************************************************)
\* Python's None where a text, a tuple or an object is expected
None == << >>

\* db.config.json as _load_db_config returns it: the logical names of the
\* mysql section and, in file order, those of the sqlite section
db_config ==
    [ mysql  |-> { << "o", "r", "d" >> },
      sqlite |-> << << "c", "a", "c", "h", "e" >> >> ]

_get_first_sqlite_db ==
    IF db_config.sqlite # << >>
    THEN db_config.sqlite[1]
    ELSE << "c", "a", "c", "h", "e" >>

\* the optional quote of the table-reference patterns, a backtick (written
\* "backtick") or a double quote
IsQuote(c) == c \in { "backtick", "\"" }

\* length of the longest run of \w (of \s) that starts at position i
RECURSIVE WordRun(_, _)
WordRun(s, i) ==
    IF i <= Len(s) /\ IsWordChar(s[i]) THEN 1 + WordRun(s, i + 1) ELSE 0

RECURSIVE SpaceRun(_, _)
SpaceRun(s, i) ==
    IF i <= Len(s) /\ IsSpace(s[i]) THEN 1 + SpaceRun(s, i + 1) ELSE 0

\* position after an optional quote at position i
SkipQuote(s, i) == IF i <= Len(s) /\ IsQuote(s[i]) THEN i + 1 ELSE i

\* position after  WORD\s+WORD\s+...  matched without regard to case at
\* position i, 0 when it does not match there
RECURSIVE AfterKeywords(_, _, _)
AfterKeywords(s, i, words) ==
    IF words = << >> THEN i
    ELSE IF /\ StartsAt(upper(s), i, Head(words))
            /\ SpaceRun(s, i + Len(Head(words))) >= 1
         THEN AfterKeywords(s,
                  i + Len(Head(words)) + SpaceRun(s, i + Len(Head(words))),
                  Tail(words))
         ELSE 0

\* group 1 of  KEYWORDS\s+ Q?(\w+)Q?\. Q?\w+Q?  (Q a quote) matched at
\* position i, None when the pattern does not match there
MatchReferenceAt(s, i, words) ==
    LET a == AfterKeywords(s, i, words)
        b == SkipQuote(s, a)
        n == WordRun(s, b)
        c == SkipQuote(s, b + n)
        d == SkipQuote(s, c + 1)
    IN  IF /\ a > 0
           /\ n >= 1
           /\ c <= Len(s) /\ s[c] = "."
           /\ WordRun(s, d) >= 1
        THEN SubSeq(s, b, b + n - 1)
        ELSE None

\* re.search(pattern, s, re.IGNORECASE): the leftmost match
SearchReference(s, words) ==
    IF \E i \in 1..Len(s) : MatchReferenceAt(s, i, words) # None
    THEN MatchReferenceAt(s,
             CHOOSE i \in 1..Len(s) :
                 /\ MatchReferenceAt(s, i, words) # None
                 /\ \A k \in 1..(i - 1) : MatchReferenceAt(s, k, words) = None,
             words)
    ELSE None

\* the keywords of the five patterns, in the order the loop tries them
patterns ==
    << << << "F", "R", "O", "M" >> >>,
       << << "J", "O", "I", "N" >> >>,
       << << "U", "P", "D", "A", "T", "E" >> >>,
       << << "I", "N", "S", "E", "R", "T" >>, << "I", "N", "T", "O" >> >>,
       << << "D", "E", "L", "E", "T", "E" >>, << "F", "R", "O", "M" >> >> >>

\* sql_clean of _parse_db_name_from_sql: line comments, then block
\* comments, then ' '.join(split())
parse_clean_of(sql) ==
    collapse_whitespace(strip(
        strip_block_comments(strip_line_comments(sql))))

RECURSIVE FirstPatternMatch(_, _)
FirstPatternMatch(s, k) ==
    IF k > Len(patterns) THEN None
    ELSE IF SearchReference(s, patterns[k]) # None
         THEN SearchReference(s, patterns[k])
         ELSE FirstPatternMatch(s, k + 1)

_parse_db_name_from_sql(sql) == FirstPatternMatch(parse_clean_of(sql), 1)

\* _parse_db_name_from_sql on the statements of the state machine,
\* computed once
parsed_db_names == [sql \in Statements |-> _parse_db_name_from_sql(sql)]

parsed_db_name(sql) ==
    IF sql \in DOMAIN parsed_db_names
    THEN parsed_db_names[sql]
    ELSE _parse_db_name_from_sql(sql)

\* a resolution that looks at the statement text before the given name
resolve_db_name_text_first(sql, db_name) ==
    IF parsed_db_name(sql) # None THEN parsed_db_name(sql)
    ELSE IF db_name # None THEN db_name
         ELSE _get_first_sqlite_db

_resolve_db_name(sql, db_name) ==
    IF db_name # None THEN db_name
    ELSE IF parsed_db_name(sql) # None
         THEN parsed_db_name(sql)
         ELSE _get_first_sqlite_db

\* _get_db_config: the engine of a logical name, "unconfigured" where
\* the code raises ValueError
_get_db_config(db_name) ==
    IF db_name \in db_config.mysql THEN "mysql"
    ELSE IF db_name \in Range(db_config.sqlite) THEN "sqlite"
    ELSE "unconfigured"

(***************************************************************************)
(* The gateway as a state machine: threads call the public entry points    *)
(* of utils/exe_log.py, utils/db/sql_db.py and functions/db/db_funs.py.    *)
(***************************************************************************)
\* bounds
MaxLogs == 1          \* entries in one thread's buffer
MaxFileLines == 2     \* lines of the append-only log files
MaxOutput == 3        \* messages on one thread's output channel
MaxConnects == 2      \* connections one thread opens to one database
MaxTime == 1          \* last instant of the clock
TicksPerDay == 2      \* instants of one calendar day
ConnectMs == 2        \* milliseconds it takes to open a connection
StatementMs == 1      \* milliseconds it takes to run a statement
MaxHistory == 3       \* entries a log store holds when it is queried
MaxStamp == 3         \* latest execution time of a stored entry
MaxBatch == 4         \* parameter tuples of one executemany call

Threads == { "t1", "t2" }
Users == { "alice", "bob" }

\* no thread has a log file open
NoWriters == [t \in Threads |-> << >>]

Unset == "Unset"          \* the thread-local attribute is not there
\* the thread has no ExecutionLogger yet
NoLogger == [log_type |-> "none", ready |-> FALSE, owner |-> "none"]

\* the db_name arguments: none, a configured name, a name that is not
\* configured
DbNameArgs ==
    { None, << "c", "a", "c", "h", "e" >>, << "n", "o", "d", "b" >> }

\* the user argument of query_logs: "" stands for None and for the empty
\* text, which "if user" treats alike
UserArgs == { "" } \cup Users

\* the start_time and end_time arguments of query_logs: NoTime is None
NoTime == -1

\* the limit arguments of query_logs
LimitArgs == { 1, 100 }

\* the params arguments: none, or the tuple (1,)
ParamsArgs == { None, << 1 >> }

\* the params_list arguments of executemany: lists of one-element tuples
ParamsLists == { << >>, << 1, 2, 3, 4 >> }

\* what the database engine does with a call: the connection cannot be
\* opened, the statement (for commit and rollback, the call itself)
\* raises, the commit behind the statement raises, all succeeds, or all
\* succeeds with rows that hold a value json cannot encode (bytes)
EngineOutcomes == { "conn_fail", "exec_fail", "commit_fail", "ok", "ok_bytes" }

\* the environment the process runs in: LOG_TYPE, and whether DB_IP,
\* DB_PORT, DB_USER and DB_PASSWORD are all set
Environments ==
    { [LOG_TYPE |-> "file",   mysql_vars |-> FALSE],
      [LOG_TYPE |-> "sqlite", mysql_vars |-> FALSE],
      [LOG_TYPE |-> "mysql",  mysql_vars |-> TRUE],
      [LOG_TYPE |-> "mysql",  mysql_vars |-> FALSE],
      [LOG_TYPE |-> "redis",  mysql_vars |-> FALSE] }

VARIABLES
    environ,        \* os.environ
    now,            \* datetime.now()
    logger,         \* ExecutionLogger._thread_local.logger
    exe_logs,       \* ExecutionLogger._thread_local.exe_logs
    current_user,   \* ExecutionLogger._thread_local.current_user
    db_list,        \* sql_db._thread_local.db_list
    conn_serial,    \* connections opened so far, by thread and database
    output_list,    \* output._thread_local.output_list
    file_log,       \* the lines of the execution_logs_<date>.jsonl files
    table_rows,     \* the rows of the execution_logs table
    ret,            \* the last call: its thread and what it returned
    wrote,          \* history: the entries each thread put in a buffer
                    \* since it last cleared one
    user_set        \* history: the user each thread set last

vars ==
    << environ, now, logger, exe_logs, current_user, db_list, conn_serial,
       output_list, file_log, table_rows, ret, wrote, user_set,
       cls_sql, cls_verdict, requests,
                    writers >>

(***************************************************************************)
(* Thread-local storage.                                                   *)
(***************************************************************************)
\* a slot shared by all threads, as a plain class attribute would be
shared_slot_of(t) == "t1"

\* threading.local() of ExecutionLogger: one slot per thread
thread_local_of(t) == t

\* a registry shared by all threads, as a module-level dict would be
shared_db_list_of(t) == "t1"

\* threading.local() of sql_db: one db_list per thread
_get_or_create_db_list(t) == t

\* threading.local() of output: one output_list per thread
_get_or_create_output_list(t) == t

get_thread_logs(t) == exe_logs[thread_local_of(t)]

_get_current_user(t) ==
    IF current_user[thread_local_of(t)] # Unset
    THEN current_user[thread_local_of(t)]
    ELSE "system"

(***************************************************************************)
(* Output channel, utils/output.py.                                        *)
(***************************************************************************)
write_output(out, title, type) == Append(out, [Title |-> title, Type |-> type])

show_info(out, title) == write_output(out, title, "info")

show_error(out, title) == write_output(out, title, "error")

(***************************************************************************)
(* Execution logger, utils/exe_log.py.                                     *)
(*                                                                         *)
(* A call works on a record w of what it can change: the calling thread's  *)
(* logger, buffer and output list, the log files and the log table, and    *)
(* whether it raised and what it returned.                                 *)
(***************************************************************************)
World(t) ==
    [ thread     |-> t,
      logger     |-> logger[thread_local_of(t)],
      exe_logs   |-> exe_logs[thread_local_of(t)],
      out        |-> output_list[_get_or_create_output_list(t)],
      file_log   |-> file_log,
      table_rows |-> table_rows,
      raised     |-> FALSE,
      value      |-> FALSE,
      appended   |-> << >>,
      io_error   |-> FALSE ]

\* ExecutionLogConfig._validate_config: FALSE where it raises ValueError
_validate_config ==
    /\ environ.LOG_TYPE \in { "mysql", "sqlite", "file" }
    /\ environ.LOG_TYPE = "mysql" => environ.mysql_vars

\* get_instance: the thread's logger, constructed on first use; init_ok
\* tells whether _init_mysql, _init_sqlite or _init_file succeeds
get_instance(w, init_ok) ==
    IF w.logger # NoLogger THEN w
    ELSE IF ~_validate_config THEN [w EXCEPT !.raised = TRUE]
    ELSE [w EXCEPT
            !.logger = [log_type |-> environ.LOG_TYPE, ready |-> init_ok,
                        owner |-> w.thread],
            !.out = IF init_ok
                    THEN show_info(@, "Logger Init")
                    ELSE show_error(@, "Logger Init Error")]

\* the columns of CREATE TABLE execution_logs in _init_sqlite, _init_mysql
table_columns ==
    { "id", "user_name", "command", "result", "execution_time",
      "time_cost_ms", "created_at" }

\* the columns of INSERT INTO execution_logs in _write_sqlite_log and
\* _write_mysql_log
insert_columns ==
    { "user_name", "command", "result", "execution_time", "time_cost_ms",
      "command_type" }

\* the calendar day of an instant
date_of(time) == time \div TicksPerDay

\* _write_file_log: one line appended to the file of the day
_write_file_log(w, user, command, result, time_cost_ms, command_type, io_ok) ==
    IF w.logger.ready /\ io_ok
    THEN [w EXCEPT
            !.file_log = Append(@,
                [ timestamp    |-> now,
                  user         |-> user,
                  command      |-> command,
                  result       |-> result,
                  time_cost_ms |-> time_cost_ms,
                  command_type |-> command_type ]),
            !.value = TRUE]
    ELSE [w EXCEPT !.value = FALSE, !.io_error = w.logger.ready]

\* _write_sqlite_log and _write_mysql_log: one row inserted
_write_table_log(w, user, command, result, time_cost_ms, command_type, io_ok) ==
    IF w.logger.ready /\ io_ok /\ insert_columns \subseteq table_columns
    THEN [w EXCEPT
            !.table_rows = Append(@,
                [ user_name      |-> user,
                  command        |-> command,
                  result         |-> result,
                  execution_time |-> now,
                  time_cost_ms   |-> time_cost_ms,
                  command_type   |-> command_type ]),
            !.value = TRUE]
    ELSE [w EXCEPT !.value = FALSE, !.io_error = w.logger.ready /\ ~io_ok]

\* _save_to_thread_logs
_save_to_thread_logs(w, user, command, result, time_cost_ms, command_type) ==
    LET log_entry == [ user           |-> user,
                       command        |-> command,
                       result         |-> result,
                       execution_time |-> now,
                       time_cost_ms   |-> time_cost_ms,
                       command_type   |-> command_type ]
    IN  [w EXCEPT !.exe_logs = Append(@, log_entry),
                  !.appended = Append(@, log_entry)]

\* _write_log_impl; result is the kind of result the caller passes, and
\* json.dumps raises on "unserialisable"
_write_log_impl(w, user, command, result, time_cost_ms, command_type, io_ok) ==
    IF result = "unserialisable"
    THEN [w EXCEPT !.out = show_error(@, "Log Write Error"),
                   !.value = FALSE]
    ELSE LET w1 == _save_to_thread_logs(w, user, command, result,
                                        time_cost_ms, command_type)
         IN  IF w1.logger.log_type = "file"
             THEN _write_file_log(w1, user, command, result, time_cost_ms,
                                  command_type, io_ok)
             ELSE _write_table_log(w1, user, command, result, time_cost_ms,
                                   command_type, io_ok)

\* write_execution_log: get_instance(), then write_log of the instance
write_log(t, w, command, result, time_cost_ms, command_type, init_ok, io_ok) ==
    LET w1 == get_instance(w, init_ok)
    IN  IF w1.raised THEN w1
        ELSE _write_log_impl(w1, _get_current_user(t), command, result,
                             time_cost_ms, command_type, io_ok)

write_sql_log(t, w, command, result, time_cost_ms, init_ok, io_ok) ==
    write_log(t, w, command, result, time_cost_ms, "sql", init_ok, io_ok)

\* the file of each day, newest day first, each in the order it was written:
\* sorted(log_dir.glob(...), reverse=True) and "for line in f"
RECURSIVE ScanOrderFrom(_, _)
ScanOrderFrom(lines, day) ==
    IF day < 0 THEN << >>
    ELSE SelectSeq(lines, LAMBDA l : date_of(l.timestamp) = day)
             \o ScanOrderFrom(lines, day - 1)

\* the day of the newest file there is, -1 when there is none
NewestDay(lines) ==
    IF lines = << >> THEN -1
    ELSE CHOOSE d \in { date_of(lines[i].timestamp) : i \in DOMAIN lines } :
             \A i \in DOMAIN lines : date_of(lines[i].timestamp) <= d

ScanOrder(lines) == ScanOrderFrom(lines, NewestDay(lines))

\* the filter of _query_file_logs that forgets the user
file_line_matches_any_user(l, user, start_time, end_time) ==
    /\ ~(start_time # NoTime /\ l.timestamp < start_time)
    /\ ~(end_time # NoTime /\ l.timestamp > end_time)

\* the filter of _query_file_logs: a line is kept unless a "continue" is
\* taken; "if user" holds for a user that is neither None nor empty
file_line_matches(l, user, start_time, end_time) ==
    /\ ~(user # "" /\ l.user # user)
    /\ ~(start_time # NoTime /\ l.timestamp < start_time)
    /\ ~(end_time # NoTime /\ l.timestamp > end_time)

\* the first n elements of a sequence: logs[:n] for n >= 0
Take(s, n) == SubSeq(s, 1, IF n < Len(s) THEN n ELSE Len(s))

_query_file_logs(lines, user, start_time, end_time, limit) ==
    Take(SelectSeq(ScanOrder(lines),
                   LAMBDA l : file_line_matches(l, user, start_time, end_time)),
         IF limit > 0 THEN limit ELSE 0)

\* ORDER BY execution_time DESC: the latest row first, rows of one instant
\* in the order they were inserted
RECURSIVE OrderByTimeDesc(_)
OrderByTimeDesc(rows) ==
    IF rows = << >> THEN << >>
    ELSE LET i == CHOOSE i \in 1..Len(rows) :
                      /\ \A k \in 1..Len(rows) :
                             rows[k].execution_time <= rows[i].execution_time
                      /\ \A k \in 1..(i - 1) :
                             rows[k].execution_time < rows[i].execution_time
         IN  << rows[i] >> \o
             OrderByTimeDesc(SubSeq(rows, 1, i - 1) \o
                             SubSeq(rows, i + 1, Len(rows)))

\* a WHERE clause that joins the conditions with OR
table_row_matches_any_condition(r, user, start_time, end_time) ==
    \/ (user # "" /\ r.user_name = user)
    \/ (start_time # NoTime /\ r.execution_time >= start_time)
    \/ (end_time # NoTime /\ r.execution_time <= end_time)
    \/ (user = "" /\ start_time = NoTime /\ end_time = NoTime)

\* the WHERE clause of _query_sqlite_logs and _query_mysql_logs
table_row_matches(r, user, start_time, end_time) ==
    /\ ~(user # "" /\ r.user_name # user)
    /\ ~(start_time # NoTime /\ r.execution_time < start_time)
    /\ ~(end_time # NoTime /\ r.execution_time > end_time)

\* the columns the SELECT of the two relational queries names
selected_columns(r) ==
    [ user_name      |-> r.user_name,
      command        |-> r.command,
      result         |-> r.result,
      execution_time |-> r.execution_time,
      time_cost_ms   |-> r.time_cost_ms ]

_query_table_logs(rows, user, start_time, end_time, limit) ==
    LET found == OrderByTimeDesc(SelectSeq(rows,
                     LAMBDA r : table_row_matches(r, user, start_time, end_time)))
        kept == Take(found, IF limit > 0 THEN limit ELSE 0)
    IN  [i \in 1..Len(kept) |-> selected_columns(kept[i])]

\* _query_logs_impl: a logger whose storage never initialised has no
\* log_dir and no connection, the exception is caught and [] returned
_query_logs_impl(w, user, start_time, end_time, limit) ==
    IF ~w.logger.ready
    THEN [w EXCEPT !.out = show_error(@, "Log Query Error"),
                   !.value = << >>]
    ELSE IF w.logger.log_type = "file"
    THEN [w EXCEPT !.value = _query_file_logs(w.file_log, user, start_time,
                                              end_time, limit)]
    ELSE [w EXCEPT !.value = _query_table_logs(w.table_rows, user,
                                               start_time, end_time, limit)]

\* query_execution_logs: get_instance(), then query_logs of the instance
query_logs(w, user, start_time, end_time, limit, init_ok) ==
    LET w1 == get_instance(w, init_ok)
    IN  IF w1.raised THEN w1
        ELSE _query_logs_impl(w1, user, start_time, end_time, limit)

(***************************************************************************)
(* Connection registry, utils/db/sql_db.py.                                *)
(***************************************************************************)
DigitChars == << "0", "1", "2", "3", "4", "5", "6", "7", "8", "9" >>

\* str(n) for 0 <= n <= 9
str_int(n) == << DigitChars[n + 1] >>

\* str((n,))
repr_tuple(n) == << "(" >> \o str_int(n) \o << ",", ")" >>

\* str(params) for a tuple of one element
str_params(params) == repr_tuple(params[1])

\* str([(a,), (b,), ...])
RECURSIVE JoinTuples(_)
JoinTuples(params_list) ==
    IF params_list = << >> THEN << >>
    ELSE IF Len(params_list) = 1 THEN repr_tuple(params_list[1])
    ELSE repr_tuple(params_list[1]) \o << ",", " " >>
             \o JoinTuples(Tail(params_list))

str_list(params_list) == << "[" >> \o JoinTuples(params_list) \o << "]" >>

\* command_with_params of SimpleSQLDB.execute
command_with_params(sql, params) ==
    IF params # << >>
    THEN sql \o << " ", "|", " ", "P", "a", "r", "a", "m", "s", ":", " " >>
             \o str_params(params)
    ELSE sql

\* a command text that shows the whole batch
command_with_whole_params_list(sql, params_list) ==
    << "E", "X", "E", "C", "U", "T", "E", "M", "A", "N", "Y", ":", " " >>
        \o sql
        \o << " ", "(", "b", "a", "t", "c", "h", "_", "s", "i", "z", "e", ":",
              " " >>
        \o str_int(Len(params_list)) \o << ")" >>
        \o ( IF params_list # << >>
             THEN << " ", "|", " ", "P", "a", "r", "a", "m", "s", ":", " " >>
                      \o str_list(params_list)
             ELSE << >> )

\* command_with_params of SimpleSQLDB.executemany
command_with_params_list(sql, params_list) ==
    << "E", "X", "E", "C", "U", "T", "E", "M", "A", "N", "Y", ":", " " >>
        \o sql
        \o << " ", "(", "b", "a", "t", "c", "h", "_", "s", "i", "z", "e", ":",
              " " >>
        \o str_int(Len(params_list)) \o << ")" >>
        \o ( IF params_list # << >>
             THEN << " ", "|", " ", "P", "a", "r", "a", "m", "s", ":", " " >>
                      \o str_list(Take(params_list, 3))
                      \o (IF Len(params_list) > 3
                          THEN << ".", ".", "." >> ELSE << >>)
             ELSE << >> )

\* a test of the leading word on the text as given, in the case given
starts_with_select_verbatim(sql) ==
    startswith(sql, << "S", "E", "L", "E", "C", "T" >>)

\* sql.strip().upper().startswith('SELECT')
starts_with_select(sql) ==
    startswith(upper(strip(sql)), << "S", "E", "L", "E", "C", "T" >>)

\* the same on the statements of the state machine, computed once
select_statements == { sql \in Statements : starts_with_select(sql) }

is_select(sql) ==
    IF sql \in Statements
    THEN sql \in select_statements
    ELSE starts_with_select(sql)

\* the connection object a thread opens to a database
new_connection(t, db_name) ==
    [ owner |-> t, db_name |-> db_name,
      serial |-> conn_serial[t][db_name] + 1 ]

\* a get_connection that connects anew on every call
get_connection_always_new(t, db, engine) ==
    IF engine = "conn_fail" THEN db.connection
    ELSE new_connection(t, db.db_name)

\* SimpleSQLDB.get_connection: the cached connection, or a new one
get_connection(t, db, engine) ==
    IF db.connection # None THEN db.connection
    ELSE IF engine = "conn_fail" THEN None
    ELSE new_connection(t, db.db_name)

\* the step of a statement call that raised: opening the connection,
\* running the statement, or the commit behind it
failed_step(engine) ==
    CASE engine = "conn_fail" -> "connect"
      [] engine = "exec_fail" -> "statement"
      [] engine = "commit_fail" -> "commit"
      [] OTHER -> "none"

\* an execute that rolls back when the statement raises
execute_calls_rolling_back(sql, engine) ==
    IF engine = "conn_fail" THEN << >>
    ELSE IF engine = "exec_fail" THEN << "execute", "rollback" >>
    ELSE IF is_select(sql) THEN << "execute" >>
    ELSE << "execute", "commit" >>

\* what SimpleSQLDB.execute calls on the connection, in order:
\* cursor.execute, and conn.commit behind a statement that ran and does
\* not begin with SELECT
execute_calls(sql, engine) ==
    IF engine = "conn_fail" THEN << >>
    ELSE IF engine = "exec_fail" \/ is_select(sql) THEN << "execute" >>
    ELSE << "execute", "commit" >>

\* what SimpleSQLDB.executemany calls on the connection, in order:
\* cursor.executemany, and conn.commit behind a statement that ran
executemany_calls(engine) ==
    IF engine = "conn_fail" THEN << >>
    ELSE IF engine = "exec_fail" THEN << "executemany" >>
    ELSE << "executemany", "commit" >>

\* SimpleSQLDB.execute; engine is what the database engine does
SimpleSQLDB_execute(t, db, sql, params, engine, init_ok, io_ok) ==
    LET connection == get_connection(t, db, engine)
        ok == engine \in { "ok", "ok_bytes" }
        time_cost_ms ==
            (IF db.connection = None THEN ConnectMs ELSE 0)
                + (IF engine # "conn_fail" THEN StatementMs ELSE 0)
        command == command_with_params(sql, params)
        result == IF ~ok THEN "error"
                  ELSE IF ~is_select(sql) THEN "count"
                  ELSE IF engine = "ok_bytes" THEN "unserialisable"
                  ELSE "rows"
        w1 == write_sql_log(t, World(t), command, result, time_cost_ms,
                            init_ok, io_ok)
        \* an exception of write_sql_log inside the try block is handled
        \* by the except block, which calls write_sql_log again
        w2 == IF w1.raised
              THEN write_sql_log(t, [w1 EXCEPT !.raised = FALSE], command,
                                 "error", time_cost_ms, init_ok, io_ok)
              ELSE w1
    IN  [ raised    |-> w2.raised,
          success   |-> ok /\ ~w1.raised,
          shape     |-> IF w2.raised THEN "none"
                        ELSE IF ~ok THEN "error"
                        ELSE IF is_select(sql) THEN "rows" ELSE "count",
          committed |-> ok /\ ~is_select(sql),
          calls     |-> execute_calls(sql, engine),
          failed_at |-> failed_step(engine),
          db        |-> [db EXCEPT !.connection = connection],
          w         |-> w2 ]

\* SimpleSQLDB.executemany
SimpleSQLDB_executemany(t, db, sql, params_list, engine, init_ok, io_ok) ==
    LET connection == get_connection(t, db, engine)
        ok == engine = "ok"
        time_cost_ms ==
            (IF db.connection = None THEN ConnectMs ELSE 0)
                + (IF engine # "conn_fail" THEN StatementMs ELSE 0)
        command == command_with_params_list(sql, params_list)
        w1 == write_sql_log(t, World(t), command,
                            IF ok THEN "count" ELSE "error", time_cost_ms,
                            init_ok, io_ok)
        w2 == IF w1.raised
              THEN write_sql_log(t, [w1 EXCEPT !.raised = FALSE], command,
                                 "error", time_cost_ms, init_ok, io_ok)
              ELSE w1
    IN  [ raised    |-> w2.raised,
          success   |-> ok /\ ~w1.raised,
          shape     |-> IF w2.raised THEN "none"
                        ELSE IF ok THEN "count" ELSE "error",
          committed |-> ok,
          calls     |-> executemany_calls(engine),
          failed_at |-> failed_step(engine),
          db        |-> [db EXCEPT !.connection = connection],
          w         |-> w2 ]

\* SimpleSQLDB.commit and SimpleSQLDB.rollback; call is "commit" or
\* "rollback"
SimpleSQLDB_end_transaction(t, db, call, engine) ==
    [ raised    |-> FALSE,
      success   |-> engine = "ok",
      shape     |-> IF engine = "ok" THEN "done" ELSE "error",
      committed |-> FALSE,
      calls     |-> IF engine = "conn_fail" THEN << >> ELSE << call >>,
      failed_at |-> IF engine = "ok" THEN "none"
                    ELSE IF engine = "conn_fail" THEN "connect" ELSE call,
      db        |-> [db EXCEPT !.connection = get_connection(t, db, engine)],
      w         |-> World(t) ]

\* the calling thread's registry
registry_of(t) == db_list[_get_or_create_db_list(t)]

\* SimpleSQLDB.close: the connection it closed, None when it held none,
\* and the object afterwards
SimpleSQLDB_close(db) ==
    [ closed |-> db.connection,
      db     |-> [db EXCEPT !.connection = None] ]

\* get_db: the cached SimpleSQLDB, or a new one; None where the
\* constructor raises ValueError for a name that is not configured
get_db(t, db_name) ==
    IF db_name \in DOMAIN registry_of(t) THEN registry_of(t)[db_name]
    ELSE IF _get_db_config(db_name) = "unconfigured" THEN None
    ELSE [ db_name    |-> db_name,
           db_type    |-> _get_db_config(db_name),
           connection |-> None ]

\* what a call leaves behind when get_db raises
get_db_raised(t) ==
    [ raised    |-> TRUE,
      success   |-> FALSE,
      shape     |-> "none",
      committed |-> FALSE,
      calls     |-> << >>,
      failed_at |-> "config",
      db        |-> None,
      w         |-> [World(t) EXCEPT !.raised = TRUE] ]

\* an execute that runs the statement on the first sqlite database when
\* the name it resolved is not configured
execute_on_fallback(t, sql, db_name, params, engine, init_ok, io_ok) ==
    SimpleSQLDB_execute(t,
        IF get_db(t, _resolve_db_name(sql, db_name)) = None
        THEN get_db(t, _get_first_sqlite_db)
        ELSE get_db(t, _resolve_db_name(sql, db_name)),
        sql, params, engine, init_ok, io_ok)

\* execute(sql, db_name, params)
execute(t, sql, db_name, params, engine, init_ok, io_ok) ==
    LET db == get_db(t, _resolve_db_name(sql, db_name))
    IN  IF db = None THEN get_db_raised(t)
        ELSE SimpleSQLDB_execute(t, db, sql, params, engine, init_ok, io_ok)

\* executemany(sql, params_list, db_name)
executemany(t, sql, params_list, db_name, engine, init_ok, io_ok) ==
    LET db == get_db(t, _resolve_db_name(sql, db_name))
    IN  IF db = None THEN get_db_raised(t)
        ELSE SimpleSQLDB_executemany(t, db, sql, params_list, engine,
                                     init_ok, io_ok)

\* commit(db_name) and rollback(db_name)
end_transaction(t, db_name, call, engine) ==
    LET db == get_db(t, db_name)
    IN  IF db = None THEN get_db_raised(t)
        ELSE SimpleSQLDB_end_transaction(t, db, call, engine)

\* a pass over the registry that skips the objects without a connection
end_open_transactions(t, call, engines) ==
    [ db_name \in { n \in DOMAIN registry_of(t) :
                        registry_of(t)[n].connection # None } |->
          SimpleSQLDB_end_transaction(t, registry_of(t)[db_name], call,
                                      engines[db_name]) ]

\* rollback_all() and commit_all(): db.rollback() or db.commit() on every
\* object of the calling thread's registry, one result for each name;
\* engines gives what the database engine does for each name
end_all_transactions(t, call, engines) ==
    [ db_name \in DOMAIN registry_of(t) |->
          SimpleSQLDB_end_transaction(t, registry_of(t)[db_name], call,
                                      engines[db_name]) ]

(***************************************************************************)
(* Wrappers of the connection layer, functions/db/db_exe.py.               *)
(***************************************************************************)
\* the default of the db_name parameter of the wrappers commit and rollback
All == << "a", "l", "l" >>

\* commit(db_name="all"): return sql_commit(db_name)
db_exe_commit(t, db_name, engine) ==
    end_transaction(t, db_name, "commit", engine)

\* rollback(db_name="all"): return sql_rollback(db_name)
db_exe_rollback(t, db_name, engine) ==
    end_transaction(t, db_name, "rollback", engine)

(***************************************************************************)
(* Safe query entry point, functions/db/db_funs.py.                        *)
(***************************************************************************)
\* _is_query_only on the statements of the state machine, computed once
query_only_statements == { sql \in Statements : _is_query_only(sql) }

passes_security_check(sql) ==
    IF sql \in Statements
    THEN sql \in query_only_statements
    ELSE _is_query_only(sql)

\* the result of a sql_query that lets an exception of its body pass
sql_query_result_uncaught(r, out) ==
    [r EXCEPT !.w = [r.w EXCEPT
                       !.out = IF r.raised THEN out
                               ELSE IF r.success
                                    THEN show_info(out, "Query Result")
                                    ELSE show_error(out, "SQL Error")]]

\* the result of sql_query once execute ended with r and the output channel
\* holds out
sql_query_result(r, out) ==
    [r EXCEPT !.raised = FALSE,
              !.success = ~r.raised /\ r.success,
              !.shape = IF r.raised THEN "error" ELSE r.shape,
              !.w = [r.w EXCEPT
                       !.out = IF r.raised
                               THEN show_error(out, "SQL Execution Error")
                               ELSE IF r.success
                                    THEN show_info(out, "Query Result")
                                    ELSE show_error(out, "SQL Error"),
                       !.raised = FALSE]]

\* the messages sql_query shows before it calls execute
sql_query_announced(out, params) ==
    IF params # << >>
    THEN show_info(show_info(out, "SQL Execution"), "SQL Parameters")
    ELSE show_info(out, "SQL Execution")

\* sql_query after execute ended with r: the messages execute added to the
\* n it found come behind those sql_query had shown
sql_query_after_execute(n, shown, r) ==
    sql_query_result(r, shown \o SubSeq(r.w.out, n + 1, Len(r.w.out)))

\* sql_query for a statement that passed the security check
sql_query_admitted(t, sql, db_name, params, engine, init_ok, io_ok) ==
    sql_query_after_execute(
        Len(World(t).out),
        sql_query_announced(World(t).out, params),
        execute(t, sql, db_name, params, engine, init_ok, io_ok))

\* sql_query without its security check
sql_query_no_gate(t, sql, db_name, params, engine, init_ok, io_ok) ==
    sql_query_admitted(t, sql, db_name, params, engine, init_ok, io_ok)

\* re.sub of _is_query_only raises TypeError for a statement that is not
\* a str, inside the try block of sql_query
is_query_only_raised(t) ==
    [ raised    |-> TRUE,
      success   |-> FALSE,
      shape     |-> "none",
      committed |-> FALSE,
      calls     |-> << >>,
      failed_at |-> "check",
      db        |-> None,
      w         |-> [World(t) EXCEPT !.raised = TRUE] ]

\* sql_query(sql, db_name, params)
sql_query(t, sql, db_name, params, engine, init_ok, io_ok) ==
    IF sql = NotAString
    THEN sql_query_result(is_query_only_raised(t), World(t).out)
    ELSE IF ~passes_security_check(sql)
    THEN [ raised    |-> FALSE,
           success   |-> FALSE,
           shape     |-> "rejected",
           committed |-> FALSE,
           calls     |-> << >>,
           failed_at |-> "check",
           db        |-> None,
           w         |-> [World(t) EXCEPT
                            !.out = show_error(@, "SQL Security Check")] ]
    ELSE sql_query_admitted(t, sql, db_name, params, engine, init_ok, io_ok)

(***************************************************************************)
(* The state machine.                                                      *)
(***************************************************************************)
ConfiguredNames == db_config.mysql \cup Range(db_config.sqlite)

\* no thread has called anything yet
GatewayInit(environments) ==
    /\ environ \in environments
    /\ now = 0
    /\ logger = [t \in Threads |-> NoLogger]
    /\ exe_logs = [t \in Threads |-> << >>]
    /\ current_user = [t \in Threads |-> Unset]
    /\ db_list = [t \in Threads |-> << >>]
    /\ conn_serial = [t \in Threads |-> [n \in ConfiguredNames |-> 0]]
    /\ output_list = [t \in Threads |-> << >>]
    /\ file_log = << >>
    /\ table_rows = << >>
    /\ ret = [op |-> "none"]
    /\ wrote = [t \in Threads |-> << >>]
    /\ user_set = [t \in Threads |-> Unset]

gateway_vars ==
    << environ, now, logger, exe_logs, current_user, db_list, conn_serial,
       output_list, file_log, table_rows, ret, wrote, user_set >>

gateway_vars_but_ret ==
    << environ, now, logger, exe_logs, current_user, db_list, conn_serial,
       output_list, file_log, table_rows, wrote, user_set >>

Init ==
    /\ GatewayInit(Environments)
    /\ cls_sql = << >>
    /\ cls_verdict = "none"
    /\ requests = NoRequests
    /\ writers = NoWriters

\* the choices that make a difference: whether the storage of a logger
\* initialises matters only when the call constructs the logger
InitChoices(t) ==
    IF logger[thread_local_of(t)] = NoLogger /\ _validate_config
    THEN BOOLEAN ELSE { TRUE }

\* the part of the state a logger call leaves behind, within the bounds
ApplyLoggerState(t, w) ==
    /\ Len(w.exe_logs) <= MaxLogs
    /\ Len(w.file_log) <= MaxFileLines
    /\ Len(w.out) <= MaxOutput
    /\ logger' = [logger EXCEPT ![thread_local_of(t)] = w.logger]
    /\ exe_logs' = [exe_logs EXCEPT ![thread_local_of(t)] = w.exe_logs]
    /\ output_list' =
           [output_list EXCEPT ![_get_or_create_output_list(t)] = w.out]
    /\ file_log' = w.file_log
    /\ table_rows' = w.table_rows

ApplyWorld(t, w) ==
    /\ ApplyLoggerState(t, w)
    /\ wrote' = [wrote EXCEPT ![t] = @ \o w.appended]

\* the part of the state a call into the connection layer leaves behind
ApplyOutcome(t, r) ==
    /\ ApplyWorld(t, r.w)
    /\ IF r.db = None
       THEN UNCHANGED << db_list, conn_serial >>
       ELSE /\ r.db.connection # None =>
                   r.db.connection.serial <= MaxConnects
            /\ db_list' = [db_list EXCEPT ![_get_or_create_db_list(t)] =
                               (r.db.db_name :> r.db) @@ @]
            /\ conn_serial' =
                   IF r.db.connection # None
                   THEN [conn_serial EXCEPT ![t][r.db.db_name] =
                             IF r.db.connection.serial > @
                             THEN r.db.connection.serial ELSE @]
                   ELSE conn_serial

\* ExecutionLogger.set_current_user(user)
SetCurrentUser(t, user, init_ok) ==
    /\ init_ok \in InitChoices(t)
    /\  LET w == get_instance(World(t), init_ok)
        IN  /\ ApplyWorld(t, w)
            /\ current_user' =
                   IF w.raised THEN current_user
                   ELSE [current_user EXCEPT ![thread_local_of(t)] = user]
            /\ user_set' =
                   IF w.raised THEN user_set
                   ELSE [user_set EXCEPT ![t] = user]
            /\ ret' = [ thread |-> t, op |-> "set_current_user",
                     raised |-> w.raised ]
            /\ UNCHANGED << environ, now, db_list, conn_serial,
                            cls_sql, cls_verdict, requests,
                    writers >>

\* ExecutionLogger.clear_thread_logs()
ClearThreadLogs(t, init_ok) ==
    /\ init_ok \in InitChoices(t)
    /\  LET w == get_instance(World(t), init_ok)
        IN  /\ ApplyLoggerState(t, IF w.raised THEN w
                                   ELSE [w EXCEPT !.exe_logs = << >>])
            /\ wrote' = IF w.raised THEN wrote
                        ELSE [wrote EXCEPT ![t] = << >>]
            /\ ret' = [ thread |-> t, op |-> "clear_thread_logs",
                     raised |-> w.raised ]
            /\ UNCHANGED << environ, now, current_user, db_list,
                            conn_serial, user_set, cls_sql, cls_verdict, requests,
                    writers >>

\* write_execution_log(command, result, time_cost_ms, command_type), a
\* direct call of a tool function
WriteLog(t, result, time_cost_ms, init_ok, io_ok) ==
    /\ init_ok \in InitChoices(t)
    /\  LET w == write_log(t, World(t), << "l", "s", " ", "-", "l", "a" >>,
                           result, time_cost_ms, "linux", init_ok, io_ok)
        IN  /\ ApplyWorld(t, w)
            /\ ret' = [ thread   |-> t,
                        op       |-> "write_log",
                        raised   |-> w.raised,
                        value    |-> w.value,
                        buffered |-> w.appended # << >>,
                        io_error |-> w.io_error ]
            /\ UNCHANGED << environ, now, current_user, db_list,
                            conn_serial, user_set, cls_sql, cls_verdict, requests,
                    writers >>

\* query_execution_logs(user, start_time, end_time, limit)
QueryLogs(t, user, start_time, end_time, limit, init_ok) ==
    /\ init_ok \in InitChoices(t)
    /\  LET w == query_logs(World(t), user, start_time, end_time, limit,
                            init_ok)
        IN  /\ ApplyWorld(t, w)
            /\ ret' = [ thread |-> t,
                        op     |-> "query_logs",
                        raised |-> w.raised,
                        value  |-> IF w.raised THEN << >> ELSE w.value,
                        user   |-> user,
                        limit  |-> limit ]
            /\ UNCHANGED << environ, now, current_user, db_list,
                            conn_serial, user_set, cls_sql, cls_verdict, requests,
                    writers >>

\* what the database engine can do with a call of a thread on a database
EngineChoices(t, sql, db_name, select_only) ==
    LET name == _resolve_db_name(sql, db_name)
    IN  { e \in EngineOutcomes :
            /\ e = "conn_fail" =>
                   (name \notin DOMAIN registry_of(t)
                        \/ registry_of(t)[name].connection = None)
            /\ e = "ok_bytes" => (select_only /\ is_select(sql))
            /\ e = "commit_fail" =>
                   (sql # << >> /\ ~(select_only /\ is_select(sql))) }

\* what a call into the connection layer returned, with the statement and
\* the database name it was given, whether it got a SimpleSQLDB from
\* get_db, and the connection that object holds after the call
ConnectionRet(t, op, sql, db_name, r) ==
    [ thread     |-> t,
      op         |-> op,
      sql        |-> sql,
      db_name    |-> db_name,
      reached    |-> r.db # None,
      connection |-> IF r.db = None THEN None ELSE r.db.connection,
      raised     |-> r.raised,
      success    |-> r.success,
      shape      |-> r.shape,
      committed  |-> r.committed,
      calls      |-> r.calls,
      failed_at  |-> r.failed_at ]

\* a call into the connection layer ended with r
Returned(t, op, sql, db_name, r) ==
    /\ ApplyOutcome(t, r)
    /\ ret' = ConnectionRet(t, op, sql, db_name, r)
    /\ UNCHANGED << environ, now, current_user, user_set, cls_sql,
                    cls_verdict, requests,
                    writers >>

\* execute(sql, db_name, params)
Execute(t, sql, db_name, params, engine, init_ok, io_ok) ==
    /\ engine \in EngineChoices(t, sql, db_name, TRUE)
    /\ init_ok \in InitChoices(t)
    /\ Returned(t, "execute", sql, db_name,
                execute(t, sql, db_name, params, engine, init_ok, io_ok))

\* executemany(sql, params_list, db_name)
ExecuteMany(t, sql, params_list, db_name, engine, init_ok, io_ok) ==
    /\ engine \in EngineChoices(t, sql, db_name, FALSE)
    /\ init_ok \in InitChoices(t)
    /\ Returned(t, "executemany", sql, db_name,
                executemany(t, sql, params_list, db_name, engine, init_ok,
                            io_ok))

\* commit(db_name)
Commit(t, db_name, engine) ==
    /\ engine \in EngineChoices(t, << >>, db_name, FALSE)
    /\ Returned(t, "commit", << >>, db_name,
                end_transaction(t, db_name, "commit", engine))

\* rollback(db_name)
Rollback(t, db_name, engine) ==
    /\ engine \in EngineChoices(t, << >>, db_name, FALSE)
    /\ Returned(t, "rollback", << >>, db_name,
                end_transaction(t, db_name, "rollback", engine))

\* db_exe.commit(db_name)
DbExeCommit(t, db_name, engine) ==
    /\ engine \in EngineChoices(t, << >>, db_name, FALSE)
    /\ Returned(t, "db_exe_commit", << >>, db_name,
                db_exe_commit(t, db_name, engine))

\* db_exe.rollback(db_name)
DbExeRollback(t, db_name, engine) ==
    /\ engine \in EngineChoices(t, << >>, db_name, FALSE)
    /\ Returned(t, "db_exe_rollback", << >>, db_name,
                db_exe_rollback(t, db_name, engine))

\* sql_query(sql, db_name, params)
SqlQuery(t, sql, db_name, params, engine, init_ok, io_ok) ==
    /\ engine \in EngineChoices(t, sql, db_name, TRUE)
    /\ init_ok \in InitChoices(t)
    /\ Returned(t, "sql_query", sql, db_name,
                sql_query(t, sql, db_name, params, engine, init_ok, io_ok))

\* clear_db_list()
ClearDbList(t) ==
    /\ db_list' = [db_list EXCEPT ![_get_or_create_db_list(t)] = << >>]
    /\ ret' = [ thread |-> t, op |-> "clear_db_list", raised |-> FALSE,
                closed |-> { SimpleSQLDB_close(registry_of(t)[n]).closed :
                                 n \in DOMAIN registry_of(t) } \ { None } ]
    /\ UNCHANGED << environ, now, logger, exe_logs, current_user,
                    conn_serial, output_list, file_log, table_rows, wrote,
                    user_set, cls_sql, cls_verdict, requests,
                    writers >>

\* what the database engine does with a commit or a rollback
EndOutcomes == { "conn_fail", "exec_fail", "ok" }

\* what the database engine can do with each database of a thread's
\* registry when a call goes through all of them
EngineChoicesAll(t) ==
    { engines \in [ConfiguredNames -> EndOutcomes] :
          \A n \in ConfiguredNames :
              /\ n \notin DOMAIN registry_of(t) => engines[n] = "ok"
              /\ engines[n] = "conn_fail" =>
                     (n \in DOMAIN registry_of(t)
                          /\ registry_of(t)[n].connection = None) }

\* a call that went through the calling thread's registry ended with rs,
\* one outcome for each name
ReturnedAll(t, op, rs) ==
    /\ \A n \in DOMAIN rs :
           rs[n].db.connection # None =>
               rs[n].db.connection.serial <= MaxConnects
    /\ db_list' = [db_list EXCEPT ![_get_or_create_db_list(t)] =
                       [n \in DOMAIN rs |-> rs[n].db]]
    /\ conn_serial' =
           [conn_serial EXCEPT ![t] =
               [n \in ConfiguredNames |->
                   IF n \in DOMAIN rs /\ rs[n].db.connection # None
                          /\ rs[n].db.connection.serial > @[n]
                   THEN rs[n].db.connection.serial ELSE @[n]]]
    /\ ret' = [ thread  |-> t,
                op      |-> op,
                raised  |-> FALSE,
                results |-> [n \in DOMAIN rs |->
                                [ success |-> rs[n].success,
                                  calls   |-> rs[n].calls ]] ]
    /\ UNCHANGED << environ, now, logger, exe_logs, current_user,
                    output_list, file_log, table_rows, wrote, user_set,
                    cls_sql, cls_verdict, requests,
                    writers >>

\* commit_all()
CommitAll(t, engines) ==
    /\ engines \in EngineChoicesAll(t)
    /\ ReturnedAll(t, "commit_all",
                   end_all_transactions(t, "commit", engines))

\* rollback_all()
RollbackAll(t, engines) ==
    /\ engines \in EngineChoicesAll(t)
    /\ ReturnedAll(t, "rollback_all",
                   end_all_transactions(t, "rollback", engines))

\* clear_output()
ClearOutput(t) ==
    /\ output_list' =
           [output_list EXCEPT ![_get_or_create_output_list(t)] = << >>]
    /\ ret' = [thread |-> t, op |-> "clear_output", raised |-> FALSE]
    /\ UNCHANGED << environ, now, logger, exe_logs, current_user, db_list,
                    conn_serial, file_log, table_rows, wrote, user_set,
                    cls_sql, cls_verdict, requests,
                    writers >>

\* time passes
Tick ==
    /\ now < MaxTime
    /\ now' = now + 1
    /\ UNCHANGED << environ, logger, exe_logs, current_user, db_list,
                    conn_serial, output_list, file_log, table_rows, ret,
                    wrote, user_set, cls_sql, cls_verdict, requests,
                    writers >>

\* the result kinds and durations a direct caller of write_log passes
ResultArgs == { "json", "unserialisable" }
TimeCostArgs == { 5 }

\* the calls into the connection layer: a statement, the database name
\* given with it, its parameters
ExecuteCalls ==
    { [sql |-> SelectOne, db_name |-> None, params |-> None],
      [sql |-> SelectOne, db_name |-> << "n", "o", "d", "b" >>,
       params |-> None],
      [sql |-> InsertOrder, db_name |-> None, params |-> << 1 >>],
      [sql |-> SelectEvents, db_name |-> None, params |-> None] }

ExecuteManyCalls ==
    { [sql |-> InsertOrder, db_name |-> None, params_list |-> pl] :
          pl \in ParamsLists }

SqlQueryCalls ==
    { [sql |-> sql, db_name |-> None, params |-> None] :
          sql \in { SelectOne, StackedDrop, DropTable, SelectEvents } }

\* the thread of the single-threaded runs
MainThread == "t1"

\* the connection layer and the safe query, called by one thread, with
\* every outcome of the engine, in every environment; the log store, where
\* it is configured, works
Next ==
    \/ \E c \in ExecuteCalls, engine \in EngineOutcomes :
           Execute(MainThread, c.sql, c.db_name, c.params, engine, TRUE,
                   TRUE)
    \/ \E c \in ExecuteManyCalls, engine \in EngineOutcomes :
           ExecuteMany(MainThread, c.sql, c.params_list, c.db_name, engine,
                       TRUE, TRUE)
    \/ \E db_name \in DbNameArgs \ { None }, engine \in EngineOutcomes :
           Commit(MainThread, db_name, engine)
    \/ \E db_name \in DbNameArgs \ { None }, engine \in EngineOutcomes :
           Rollback(MainThread, db_name, engine)
    \/ \E c \in SqlQueryCalls, engine \in EngineOutcomes :
           SqlQuery(MainThread, c.sql, c.db_name, c.params, engine, TRUE,
                    TRUE)

Spec == Init /\ [][Next]_vars

(***************************************************************************)
(* The gates in front of a statement: one thread calls the connection     *)
(* layer and the safe query with names that are and are not configured    *)
(* and with statements that do and do not pass the security check, with   *)
(* every outcome of the engine, in every environment.                     *)
(***************************************************************************)
NoDb == << "n", "o", "d", "b" >>

GateExecuteCalls ==
    { [sql |-> SelectOne, db_name |-> None],
      [sql |-> SelectOne, db_name |-> NoDb],
      [sql |-> SelectEvents, db_name |-> None] }

GateExecuteManyCalls ==
    { [sql |-> InsertOrder, db_name |-> None],
      [sql |-> InsertOrder, db_name |-> NoDb] }

GateNext ==
    \/ \E c \in GateExecuteCalls, engine \in EngineOutcomes :
           Execute(MainThread, c.sql, c.db_name, None, engine, TRUE, TRUE)
    \/ \E c \in GateExecuteManyCalls, engine \in EngineOutcomes :
           ExecuteMany(MainThread, c.sql, << 1, 2, 3, 4 >>, c.db_name,
                       engine, TRUE, TRUE)
    \/ \E db_name \in DbNameArgs \ { None }, engine \in EngineOutcomes :
           Commit(MainThread, db_name, engine)
    \/ \E db_name \in DbNameArgs \ { None }, engine \in EngineOutcomes :
           Rollback(MainThread, db_name, engine)
    \/ \E c \in SqlQueryCalls, engine \in EngineOutcomes :
           SqlQuery(MainThread, c.sql, c.db_name, c.params, engine, TRUE,
                    TRUE)

SpecGate == Init /\ [][GateNext]_vars

(***************************************************************************)
(* The execution logger on its own: one thread sets its user, writes,     *)
(* clears and queries entries while time passes, with every outcome of    *)
(* the log store.                                                          *)
(***************************************************************************)
LogInit ==
    /\ GatewayInit(Environments)
    /\ cls_sql = << >>
    /\ cls_verdict = "none"
    /\ requests = NoRequests
    /\ writers = NoWriters

LogNext ==
    \/ \E user \in Users, init_ok \in BOOLEAN :
           SetCurrentUser(MainThread, user, init_ok)
    \/ \E init_ok \in BOOLEAN : ClearThreadLogs(MainThread, init_ok)
    \/ \E result \in ResultArgs, time_cost_ms \in TimeCostArgs,
          init_ok \in BOOLEAN, io_ok \in BOOLEAN :
           WriteLog(MainThread, result, time_cost_ms, init_ok, io_ok)
    \/ \E user \in UserArgs, limit \in LimitArgs, init_ok \in BOOLEAN :
           QueryLogs(MainThread, user, NoTime, NoTime, limit, init_ok)
    \/ Tick

SpecLog == LogInit /\ [][LogNext]_vars

(***************************************************************************)
(* Two threads, each serving its own user, on a log store that works:     *)
(* they set their user, write, clear and query entries and clear their    *)
(* output.                                                                 *)
(***************************************************************************)
UserOf == [t \in Threads |-> IF t = "t1" THEN "alice" ELSE "bob"]

ThreadsInit ==
    /\ GatewayInit({ [LOG_TYPE |-> "file", mysql_vars |-> FALSE] })
    /\ cls_sql = << >>
    /\ cls_verdict = "none"
    /\ requests = NoRequests
    /\ writers = NoWriters

ThreadsNext ==
    \/ \E t \in Threads : SetCurrentUser(t, UserOf[t], TRUE)
    \/ \E t \in Threads : ClearThreadLogs(t, TRUE)
    \/ \E t \in Threads, time_cost_ms \in TimeCostArgs :
           WriteLog(t, "json", time_cost_ms, TRUE, TRUE)
    \/ \E t \in Threads, user \in UserArgs :
           QueryLogs(t, user, NoTime, NoTime, 100, TRUE)
    \/ \E t \in Threads : ClearOutput(t)

SpecThreads == ThreadsInit /\ [][ThreadsNext]_vars

(***************************************************************************)
(* Two threads and their connection registries, on a database engine and  *)
(* a log store that work.                                                  *)
(***************************************************************************)
ConnNext ==
    \/ \E t \in Threads :
           Execute(t, SelectOne, None, None, "ok", TRUE, TRUE)
    \/ \E t \in Threads :
           Commit(t, << "c", "a", "c", "h", "e" >>, "ok")
    \/ \E t \in Threads : ClearDbList(t)

SpecConn == ThreadsInit /\ [][ConnNext]_vars

(***************************************************************************)
(* The classifier on its own: _is_query_only applied to every text of      *)
(* Texts.                                                                  *)
(***************************************************************************)
ClassifyInit ==
    /\ GatewayInit({ [LOG_TYPE |-> "file", mysql_vars |-> FALSE] })
    /\ cls_sql \in Texts
    /\ cls_verdict = "none"
    /\ requests = NoRequests
    /\ writers = NoWriters

\* one call of _is_query_only(cls_sql)
Classify ==
    /\ cls_verdict = "none"
    /\ cls_verdict' = IF _is_query_only(cls_sql) THEN "allow" ELSE "deny"
    /\ UNCHANGED << cls_sql, gateway_vars, requests,
                    writers >>

ClassifyNext == Classify

SpecClassify == ClassifyInit /\ [][ClassifyNext]_vars

(***************************************************************************)
(* The log stores on their own: the files and the table hold the same     *)
(* history of entries, written with the default execution_time and so in  *)
(* the order of their times, and one query is put to both.                 *)
(***************************************************************************)
StoredEntries == [user : Users, time : 0..MaxStamp]

Histories ==
    UNION { { h \in [1..n -> StoredEntries] :
                \A i \in 1..(n - 1) : h[i].time <= h[i + 1].time } :
            n \in 0..MaxHistory }

\* the line _write_file_log appends for an entry
file_line_of(e) ==
    [ timestamp    |-> e.time,
      user         |-> e.user,
      command      |-> "ls -la",
      result       |-> "json",
      time_cost_ms |-> 5,
      command_type |-> "linux" ]

\* the row of the execution_logs table for an entry
table_row_of(e) ==
    [ user_name      |-> e.user,
      command        |-> "ls -la",
      result         |-> "json",
      execution_time |-> e.time,
      time_cost_ms   |-> 5,
      command_type   |-> "linux" ]

\* the start_time and end_time arguments of a query
QueryStamps == { NoTime } \cup (0..MaxStamp)

StoreInit ==
    /\ environ = [LOG_TYPE |-> "file", mysql_vars |-> FALSE]
    /\ now = 0
    /\ logger = [t \in Threads |-> NoLogger]
    /\ exe_logs = [t \in Threads |-> << >>]
    /\ current_user = [t \in Threads |-> Unset]
    /\ db_list = [t \in Threads |-> << >>]
    /\ conn_serial = [t \in Threads |-> [n \in ConfiguredNames |-> 0]]
    /\ output_list = [t \in Threads |-> << >>]
    /\ \E h \in Histories :
           /\ file_log = [i \in 1..Len(h) |-> file_line_of(h[i])]
           /\ table_rows = [i \in 1..Len(h) |-> table_row_of(h[i])]
    /\ ret = [op |-> "none"]
    /\ wrote = [t \in Threads |-> << >>]
    /\ user_set = [t \in Threads |-> Unset]
    /\ cls_sql = << >>
    /\ cls_verdict = "none"
    /\ requests = NoRequests
    /\ writers = NoWriters

\* _query_file_logs and _query_sqlite_logs / _query_mysql_logs, called with
\* the same arguments on the two stores
QueryStores(user, start_time, end_time, limit) ==
    /\ ret.op = "none"
    /\ ret' = [ op         |-> "query_stores",
                user       |-> user,
                start_time |-> start_time,
                end_time   |-> end_time,
                limit      |-> limit,
                file       |-> _query_file_logs(file_log, user, start_time,
                                                end_time, limit),
                table      |-> _query_table_logs(table_rows, user,
                                                 start_time, end_time,
                                                 limit) ]
    /\ UNCHANGED << environ, now, logger, exe_logs, current_user, db_list,
                    conn_serial, output_list, file_log, table_rows, wrote,
                    user_set, cls_sql, cls_verdict, requests,
                    writers >>

StoreNext ==
    \E user \in UserArgs, start_time \in QueryStamps,
       end_time \in QueryStamps, limit \in LimitArgs :
        QueryStores(user, start_time, end_time, limit)

SpecStore == StoreInit /\ [][StoreNext]_vars

(***************************************************************************)
(* Database name resolution on its own: _resolve_db_name applied to       *)
(* statements that name a table, qualified by a database or not, quoted   *)
(* or not, with and without a database name given by the caller.          *)
(***************************************************************************)
Analytics == << "a", "n", "a", "l", "y", "t", "i", "c", "s" >>
Events == << "e", "v", "e", "n", "t", "s" >>
Ord == << "o", "r", "d" >>

\* the quotes a name is written in: none, backticks, double quotes
QuoteMarks == { << >>, << "backtick" >>, << "\"" >> }

\* the table references: the database they name (None for an unqualified
\* one) and their text
TableReferences ==
    { [db |-> None, text |-> Events] }
        \cup { [db |-> d, text |-> q \o d \o q \o << "." >> \o q \o Events \o q] :
                  d \in { Analytics, Ord }, q \in QuoteMarks }

\* the statement shapes: the text before and behind the table reference
StatementShapes ==
    { [before |-> << "S", "E", "L", "E", "C", "T", " ", "*", " ", "F", "R", "O", "M", " " >>,
        behind |-> << >>],
      [before |-> << "s", "e", "l", "e", "c", "t", " ", "*", " ", "f", "r", "o", "m", " " >>,
        behind |-> << >>],
      [before |-> << "S", "E", "L", "E", "C", "T", " ", "*", " ", "F", "R", "O", "M", " ", "t", " ", "J", "O", "I", "N", " " >>,
        behind |-> << >>],
      [before |-> << "U", "P", "D", "A", "T", "E", " " >>,
        behind |-> << " ", "S", "E", "T", " ", "x", " ", "=", " ", "1" >>],
      [before |-> << "I", "N", "S", "E", "R", "T", " ", "I", "N", "T", "O", " " >>,
        behind |-> << " ", "V", "A", "L", "U", "E", "S", " ", "(", "?", ")" >>],
      [before |-> << "D", "E", "L", "E", "T", "E", " ", "F", "R", "O", "M", " " >>,
        behind |-> << >>] }

\* the statements, each with the database its table reference names
ResolveCases ==
    { [sql |-> sh.before \o r.text \o sh.behind, db |-> r.db] :
          sh \in StatementShapes, r \in TableReferences }

\* the db_name arguments: none, configured names, one that is not
ResolveNameArgs == DbNameArgs \cup { Ord }

ResolveInit ==
    /\ GatewayInit({ [LOG_TYPE |-> "file", mysql_vars |-> FALSE] })
    /\ cls_sql \in { c.sql : c \in ResolveCases }
    /\ cls_verdict = "none"
    /\ requests = NoRequests
    /\ writers = NoWriters

\* one call of _resolve_db_name(cls_sql, db_name)
Resolve(db_name) ==
    /\ ret.op = "none"
    /\ ret' = [ op      |-> "resolve_db_name",
                sql     |-> cls_sql,
                db_name |-> db_name,
                value   |-> _resolve_db_name(cls_sql, db_name) ]
    /\ UNCHANGED << environ, now, logger, exe_logs, current_user, db_list,
                    conn_serial, output_list, file_log, table_rows, wrote,
                    user_set, cls_sql, cls_verdict, requests,
                    writers >>

ResolveNext == \E db_name \in ResolveNameArgs : Resolve(db_name)

SpecResolve == ResolveInit /\ [][ResolveNext]_vars


(***************************************************************************)
(* Database name resolution on statements with two qualified table        *)
(* references, each behind one of the five keywords.                      *)
(***************************************************************************)
ReferenceKeywords ==
    { << "F", "R", "O", "M" >>,
      << "J", "O", "I", "N" >>,
      << "U", "P", "D", "A", "T", "E" >>,
      << "I", "N", "S", "E", "R", "T", " ", "I", "N", "T", "O" >>,
      << "D", "E", "L", "E", "T", "E", " ", "F", "R", "O", "M" >> }

\* keyword, reference, filler, keyword, reference; db is the database of
\* the reference that stands first in the text
TwoReferenceCases ==
    { [ sql |-> k1 \o << " " >> \o d1 \o << ".", "t" >>
                   \o << " ", "x", " " >>
                   \o k2 \o << " " >>
                   \o (IF d1 = Ord THEN Analytics ELSE Ord)
                   \o << ".", "u" >>,
        db  |-> d1 ] :
          k1 \in ReferenceKeywords, k2 \in ReferenceKeywords,
          d1 \in { Analytics, Ord } }

FirstInit ==
    /\ GatewayInit({ [LOG_TYPE |-> "file", mysql_vars |-> FALSE] })
    /\ cls_sql \in { c.sql : c \in TwoReferenceCases }
    /\ cls_verdict = "none"
    /\ requests = NoRequests
    /\ writers = NoWriters

SpecFirst == FirstInit /\ [][ResolveNext]_vars

(***************************************************************************)
(* Statements of every leading word: one thread runs them and clears its  *)
(* log buffer, with every outcome of the database engine, on a log store  *)
(* that works.                                                             *)
(***************************************************************************)
\* the statements, by the word they begin with once whitespace is stripped
\* and case is ignored
LeadingWord ==
    (SelectOne :> "SELECT") @@ (SelectPadded :> "SELECT")
        @@ (WithQuery :> "WITH") @@ (InsertOrder :> "INSERT")

StatementNext ==
    \/ \E sql \in DOMAIN LeadingWord, engine \in EngineOutcomes :
           Execute(MainThread, sql, None, None, engine, TRUE, TRUE)
    \/ \E c \in ExecuteManyCalls, engine \in EngineOutcomes :
           ExecuteMany(MainThread, c.sql, c.params_list, c.db_name, engine,
                       TRUE, TRUE)
    \/ ClearThreadLogs(MainThread, TRUE)

SpecStatement == ThreadsInit /\ [][StatementNext]_vars

(***************************************************************************)
(* Transactions on every database at once: two threads fill their         *)
(* registries, commit and roll back all their databases, through the      *)
(* connection layer and through its wrappers, and clear their registries, *)
(* with every outcome of the database engine.                             *)
(***************************************************************************)
\* the databases a caller names when it commits
TxNames == { << "c", "a", "c", "h", "e" >>, << "o", "r", "d" >> }

\* the database a caller of the wrappers names when it names none
WrapperNames == { All }

AllNext ==
    \/ \E t \in Threads, db_name \in TxNames, engine \in EndOutcomes :
           Commit(t, db_name, engine)
    \/ \E t \in Threads,
          engines \in [ConfiguredNames -> EndOutcomes] :
           CommitAll(t, engines)
    \/ \E t \in Threads,
          engines \in [ConfiguredNames -> EndOutcomes] :
           RollbackAll(t, engines)
    \/ \E db_name \in WrapperNames, engine \in EndOutcomes :
           DbExeCommit(MainThread, db_name, engine)
    \/ \E db_name \in WrapperNames, engine \in EndOutcomes :
           DbExeRollback(MainThread, db_name, engine)
    \/ \E t \in Threads : ClearDbList(t)

SpecAll == ThreadsInit /\ [][AllNext]_vars


(***************************************************************************)
(* The environment changes while the process runs: LOG_TYPE is assigned   *)
(* between the first uses of the logger by two threads, which set their   *)
(* user and write entries.                                                 *)
(***************************************************************************)
\* os.environ['LOG_TYPE'] = ..., with or without the mysql variables
PutEnv(env) ==
    /\ env # environ
    /\ environ' = env
    /\ ret' = [op |-> "putenv", raised |-> FALSE]
    /\ UNCHANGED << now, logger, exe_logs, current_user, db_list,
                    conn_serial, output_list, file_log, table_rows, wrote,
                    user_set, cls_sql, cls_verdict, requests,
                    writers >>

EnvNext ==
    \/ \E env \in Environments : PutEnv(env)
    \/ \E t \in Threads : SetCurrentUser(t, UserOf[t], TRUE)
    \/ \E t \in Threads, time_cost_ms \in TimeCostArgs :
           WriteLog(t, "json", time_cost_ms, TRUE, TRUE)

SpecEnv == LogInit /\ [][EnvNext]_vars


(***************************************************************************)
(* Requests on the dynamic endpoint, api/routes.py. dynamic_endpoint is a  *)
(* coroutine function, so every request is served on the thread of the    *)
(* event loop, one coroutine running at a time; a tool that is a          *)
(* coroutine function may await, and other requests run meanwhile.        *)
(***************************************************************************)
RequestIds == { "r1", "r2" }

\* the user a request is made for, and the statement its tool executes
RequestUser == [r \in RequestIds |-> IF r = "r1" THEN "alice" ELSE "bob"]

ToolStatement ==
    [r \in RequestIds |-> IF r = "r1" THEN SelectOne ELSE SelectPadded]

\* asyncio.iscoroutinefunction(func): the two kinds of tool function
ToolKinds == { "function", "coroutine" }

\* no other coroutine is between two of its awaits
MayRun(r) ==
    \A q \in DOMAIN requests : q # r => requests[q].phase # "begun"

\* dynamic_endpoint up to the tool function: clear_result() and
\* ExecutionLogger.clear_thread_logs()
BeginRequest(r, kind) ==
    /\ r \notin DOMAIN requests
    /\ MayRun(r)
    /\  LET t == MainThread
            w == get_instance([World(t) EXCEPT !.out = << >>], TRUE)
        IN  /\ ApplyLoggerState(t, [w EXCEPT !.exe_logs = << >>])
            /\ wrote' = [wrote EXCEPT ![t] = << >>]
            /\ ret' = [ thread |-> t, op |-> "begin_request",
                        raised |-> w.raised ]
    /\ requests' = (r :> [ phase    |-> "begun",
                           user     |-> RequestUser[r],
                           kind     |-> kind,
                           wrote    |-> << >>,
                           response |-> << >> ]) @@ requests
    /\ UNCHANGED << environ, now, current_user, db_list, conn_serial,
                    user_set, cls_sql, cls_verdict, writers >>

\* the tool function of request req executed its statement with outcome r:
\* a function returns, and dynamic_endpoint attaches get_thread_logs() to
\* the response; a coroutine awaits
ToolReturned(req, r) ==
    /\ ApplyOutcome(MainThread, r)
    /\ ret' = ConnectionRet(MainThread, "tool", ToolStatement[req], None, r)
    /\ requests' =
           [requests EXCEPT
              ![req].wrote = @ \o r.w.appended,
              ![req].phase = IF requests[req].kind = "function"
                             THEN "done" ELSE "awaiting",
              ![req].response = IF requests[req].kind = "function"
                                THEN r.w.exe_logs ELSE @]
    /\ UNCHANGED << environ, now, current_user, user_set, cls_sql,
                    cls_verdict, writers >>

\* _execute_tool_function: func(**kwargs) or await func(**kwargs)
ExecuteTool(req, engine) ==
    /\ req \in DOMAIN requests
    /\ requests[req].phase = "begun"
    /\ engine \in EngineChoices(MainThread, ToolStatement[req], None, TRUE)
    /\ ToolReturned(req, execute(MainThread, ToolStatement[req], None,
                                 None, engine, TRUE, TRUE))

\* the coroutine of the tool resumes and returns, and dynamic_endpoint
\* attaches ExecutionLogger.get_thread_logs() to the response
FinishRequest(req) ==
    /\ req \in DOMAIN requests
    /\ requests[req].phase = "awaiting"
    /\ MayRun(req)
    /\ requests' =
           [requests EXCEPT ![req].phase = "done",
                            ![req].response = get_thread_logs(MainThread)]
    /\ ret' = [thread |-> MainThread, op |-> "finish_request",
               raised |-> FALSE]
    /\ UNCHANGED gateway_vars_but_ret
    /\ UNCHANGED << cls_sql, cls_verdict, writers >>

RequestNext ==
    \/ \E r \in RequestIds, kind \in ToolKinds : BeginRequest(r, kind)
    \/ \E r \in RequestIds, engine \in EngineOutcomes : ExecuteTool(r, engine)
    \/ \E r \in RequestIds : FinishRequest(r)

SpecRequest == ThreadsInit /\ [][RequestNext]_vars


(***************************************************************************)
(* _query_file_logs on day files that hold lines of every form: a record  *)
(* _write_file_log wrote, text that is not JSON, JSON that is not an      *)
(* object, and an object without a 'timestamp'.                            *)
(***************************************************************************)
ScanDays == 0..1

ScanLines ==
    UNION { [ day : { d }, form : { "entry" }, user : Users,
              timestamp : { d * TicksPerDay, d * TicksPerDay + 1 } ]
            \cup [ day : { d }, form : { "not_json", "not_object" },
                   user : { Unset }, timestamp : { NoTime } ]
            \cup [ day : { d }, form : { "no_timestamp" }, user : Users,
                   timestamp : { NoTime } ] : d \in ScanDays }

\* the body of "for line in f" for one line: "skip" is a continue, "keep"
\* is logs.append(log_entry), "raise" an exception other than
\* json.JSONDecodeError
line_outcome(l, user, start_time, end_time) ==
    IF l.form = "not_json" THEN "skip"
    ELSE IF user # "" /\ l.form = "not_object" THEN "raise"
    ELSE IF user # "" /\ l.user # user THEN "skip"
    ELSE IF start_time # NoTime /\ l.form # "entry" THEN "raise"
    ELSE IF start_time # NoTime /\ l.timestamp < start_time THEN "skip"
    ELSE IF end_time # NoTime /\ l.form # "entry" THEN "raise"
    ELSE IF end_time # NoTime /\ l.timestamp > end_time THEN "skip"
    ELSE "keep"

\* "with open(log_file) as f: for line in f", from line i on: the loop
\* breaks at the limit, and an exception leaves the file
RECURSIVE read_log_file(_, _, _, _, _, _, _)
read_log_file(f, i, logs, user, start_time, end_time, limit) ==
    IF i > Len(f) \/ Len(logs) >= limit THEN logs
    ELSE IF line_outcome(f[i], user, start_time, end_time) = "raise"
    THEN logs
    ELSE read_log_file(f, i + 1,
             IF line_outcome(f[i], user, start_time, end_time) = "keep"
             THEN Append(logs, f[i]) ELSE logs,
             user, start_time, end_time, limit)

\* "for log_file in log_files", newest day first
RECURSIVE read_log_files(_, _, _, _, _, _, _)
read_log_files(lines, day, logs, user, start_time, end_time, limit) ==
    IF day < 0 THEN logs
    ELSE read_log_files(lines, day - 1,
             read_log_file(SelectSeq(lines, LAMBDA l : l.day = day), 1, logs,
                           user, start_time, end_time, limit),
             user, start_time, end_time, limit)

\* _query_file_logs on lines of every form
query_file_lines(lines, user, start_time, end_time, limit) ==
    Take(read_log_files(lines, 1, << >>, user, start_time, end_time, limit),
         IF limit > 0 THEN limit ELSE 0)

ScanInit ==
    /\ GatewayInit({ [LOG_TYPE |-> "file", mysql_vars |-> FALSE] })
    /\ cls_sql = << >>
    /\ cls_verdict = "none"
    /\ requests = NoRequests
    /\ writers = NoWriters

\* a line comes to be in the file of its day: written by _write_file_log,
\* or by anything else that writes to the log directory
PutLine(l) ==
    /\ ret.op \in { "none", "put_line" }
    /\ Len(file_log) < MaxHistory
    /\ \A i \in DOMAIN file_log : file_log[i].day <= l.day
    /\ file_log' = Append(file_log, l)
    /\ ret' = [op |-> "put_line"]
    /\ UNCHANGED << environ, now, logger, exe_logs, current_user, db_list,
                    conn_serial, output_list, table_rows, wrote, user_set,
                    cls_sql, cls_verdict, requests,
                    writers >>

\* one call of _query_file_logs
QueryFile(user, start_time, end_time, limit) ==
    /\ ret.op \in { "none", "put_line" }
    /\ ret' = [ op         |-> "query_file",
                user       |-> user,
                start_time |-> start_time,
                end_time   |-> end_time,
                limit      |-> limit,
                value      |-> query_file_lines(file_log, user, start_time,
                                                end_time, limit) ]
    /\ UNCHANGED << environ, now, logger, exe_logs, current_user, db_list,
                    conn_serial, output_list, file_log, table_rows, wrote,
                    user_set, cls_sql, cls_verdict, requests,
                    writers >>

ScanNext ==
    \/ \E l \in ScanLines : PutLine(l)
    \/ \E user \in UserArgs, start_time \in QueryStamps,
          end_time \in QueryStamps, limit \in LimitArgs :
           QueryFile(user, start_time, end_time, limit)

SpecScan == ScanInit /\ [][ScanNext]_vars


(***************************************************************************)
(* Two threads writing to the file backend at the same time. Each         *)
(* _write_file_log opens the day file for appending with a file object of *)
(* its own, and the text it wrote reaches the file when that object is    *)
(* closed; between the two another thread may open and write. Here       *)
(* file_log holds what each system call appended.                         *)
(***************************************************************************)
\* the system calls f.write(record + '\n') and the closing of f make
\* when the record and the line end are handed over one by one
file_writes_in_two_calls(t, line) ==
    << [writer |-> t, part |-> "record", line |-> line],
       [writer |-> t, part |-> "newline", line |-> line] >>

\* the system calls "with open(log_file, 'a') as f:
\* f.write(json.dumps(log_entry) + '\n')" makes: the record and the line
\* end are one string, written by one call when f is closed, on a
\* descriptor opened for appending
file_writes(t, line) ==
    << [writer |-> t, part |-> "line", line |-> line] >>

\* the writes begun: those in the file and those still owed
WritesBegun ==
    Cardinality({ i \in DOMAIN file_log : file_log[i].part # "newline" })
        + Cardinality({ t \in Threads : writers[t] # << >> })

\* write_log reached the end of the with block with outcome w
LogFileOpened(t, w) ==
    /\ ApplyWorld(t, [w EXCEPT !.file_log = file_log])
    /\ writers' = [writers EXCEPT
                     ![t] = IF w.file_log = << >> THEN << >>
                            ELSE file_writes(t, w.file_log[1])]
    /\ ret' = [ thread |-> t, op |-> "open_log_file", raised |-> w.raised ]
    /\ UNCHANGED << environ, now, current_user, db_list, conn_serial,
                    user_set, cls_sql, cls_verdict, requests >>

\* write_execution_log up to f.write(...) inside _write_file_log
OpenLogFile(t, time_cost_ms) ==
    /\ writers[t] = << >>
    /\ WritesBegun < MaxFileLines
    /\ LogFileOpened(t, write_log(t, [World(t) EXCEPT !.file_log = << >>],
                                  << "l", "s", " ", "-", "l", "a" >>,
                                  "json", time_cost_ms, "linux", TRUE, TRUE))

\* the next system call of the thread's file object, the last one when it
\* is closed; then _write_file_log returns True
WriteLogFile(t) ==
    /\ writers[t] # << >>
    /\ file_log' = Append(file_log, Head(writers[t]))
    /\ writers' = [writers EXCEPT ![t] = Tail(@)]
    /\ ret' = [ thread |-> t, op |-> "write_log_file", raised |-> FALSE,
                overlapped |-> \E u \in Threads \ { t } :
                                   writers[u] # << >> ]
    /\ UNCHANGED << environ, now, logger, exe_logs, current_user, db_list,
                    conn_serial, output_list, table_rows, wrote, user_set,
                    cls_sql, cls_verdict, requests >>

AppendNext ==
    \/ \E t \in Threads : SetCurrentUser(t, UserOf[t], TRUE)
    \/ \E t \in Threads, time_cost_ms \in TimeCostArgs :
           OpenLogFile(t, time_cost_ms)
    \/ \E t \in Threads : WriteLogFile(t)
    \/ Tick

SpecAppend == ThreadsInit /\ [][AppendNext]_vars


(***************************************************************************)
(* executemany with batches of every size up to MaxBatch, on an engine    *)
(* that succeeds or fails at each step.                                   *)
(***************************************************************************)
\* the batches: the tuples (1,), (2,), ... up to a size
BatchLists == { [k \in 1..n |-> k] : n \in 0..MaxBatch }

\* executemany(sql, params_list) ended with r
BatchReturned(t, params_list, r) ==
    /\ ApplyOutcome(t, r)
    /\ ret' = [ thread      |-> t,
                op          |-> "executemany_batch",
                raised      |-> r.raised,
                success     |-> r.success,
                params_list |-> params_list,
                logged      |-> r.w.appended ]
    /\ UNCHANGED << environ, now, current_user, user_set, cls_sql,
                    cls_verdict, requests, writers >>

\* executemany('INSERT INTO ord.t VALUES (?)', params_list)
ExecuteBatch(t, params_list, engine) ==
    /\ engine \in EngineChoices(t, InsertOrder, None, FALSE)
    /\ BatchReturned(t, params_list,
                     executemany(t, InsertOrder, params_list, None, engine,
                                 TRUE, TRUE))

BatchNext ==
    \/ \E params_list \in BatchLists, engine \in EngineOutcomes :
           ExecuteBatch(MainThread, params_list, engine)
    \/ ClearThreadLogs(MainThread, TRUE)
    \/ ClearDbList(MainThread)

SpecBatch == ThreadsInit /\ [][BatchNext]_vars


(***************************************************************************)
(* ExecutionLogger.get_instance called by two threads, again and again,   *)
(* in every environment and while the environment changes; owner is the   *)
(* thread that constructed an instance.                                   *)
(***************************************************************************)
\* logger = ExecutionLogger.get_instance()
GetInstance(t, init_ok) ==
    /\ init_ok \in InitChoices(t)
    /\  LET w == get_instance(World(t), init_ok)
        IN  /\ ApplyWorld(t, w)
            /\ ret' = [ thread      |-> t,
                        op          |-> "get_instance",
                        raised      |-> w.raised,
                        instance    |-> w.logger,
                        constructed |-> ~w.raised /\ World(t).logger = NoLogger ]
    /\ UNCHANGED << environ, now, current_user, db_list, conn_serial,
                    user_set, cls_sql, cls_verdict, requests, writers >>

InstanceNext ==
    \/ \E t \in Threads, init_ok \in BOOLEAN : GetInstance(t, init_ok)
    \/ \E env \in Environments : PutEnv(env)
    \/ \E t \in Threads : ClearOutput(t)

SpecInstance == LogInit /\ [][InstanceNext]_vars


(***************************************************************************)
(* sql_query on its own: one thread puts read-only statements of every    *)
(* kind, and statements that modify, to the safe query, with every        *)
(* outcome of the engine.                                                 *)
(***************************************************************************)
QueryTexts ==
    { SelectOne, WithQuery, PragmaTableInfo, CommentedSelect, ShowTables,
      DescTable, DescribeTable, DropTable }

QueryNext ==
    \/ \E sql \in QueryTexts, engine \in EngineOutcomes :
           SqlQuery(MainThread, sql, None, None, engine, TRUE, TRUE)
    \/ ClearThreadLogs(MainThread, TRUE)
    \/ ClearOutput(MainThread)
    \/ ClearDbList(MainThread)

SpecQuery == ThreadsInit /\ [][QueryNext]_vars


(***************************************************************************)
(* Calls on the class ExecutionLogger itself. The body of the class binds *)
(* its names in the order of the text, and a later def of a name replaces *)
(* the earlier one.                                                       *)
(***************************************************************************)
\* the defs of class ExecutionLogger that callers use, in text order
class_body ==
    << [name |-> "get_instance",      kind |-> "classmethod"],
       [name |-> "write_log",         kind |-> "staticmethod"],
       [name |-> "set_current_user",  kind |-> "staticmethod"],
       [name |-> "get_thread_logs",   kind |-> "staticmethod"],
       [name |-> "clear_thread_logs", kind |-> "staticmethod"],
       [name |-> "query_logs",        kind |-> "staticmethod"],
       [name |-> "write_log",         kind |-> "method"],
       [name |-> "query_logs",        kind |-> "method"] >>

\* ExecutionLogger.<name>: what the class holds under the name once its
\* body has run
class_attribute(name) ==
    class_body[CHOOSE i \in DOMAIN class_body :
                   /\ class_body[i].name = name
                   /\ \A k \in DOMAIN class_body :
                          class_body[k].name = name => k <= i]

\* a call ExecutionLogger.<name>(arguments) with the arguments of the
\* static form can run: a plain method called on the class takes its
\* first argument for self, or misses it
callable_on_class(name) ==
    class_attribute(name).kind \in { "staticmethod", "classmethod" }

\* ExecutionLogger.write_log(command, result, time_cost_ms=..., ...)
ClassWriteLog(t, result, time_cost_ms) ==
    /\ IF callable_on_class("write_log")
       THEN ApplyWorld(t, write_log(t, World(t),
                                    << "l", "s", " ", "-", "l", "a" >>,
                                    result, time_cost_ms, "linux", TRUE,
                                    TRUE))
       ELSE UNCHANGED << logger, exe_logs, output_list, file_log,
                         table_rows, wrote >>
    /\ ret' = [ thread |-> t, op |-> "ExecutionLogger.write_log",
                raised |-> ~callable_on_class("write_log") ]
    /\ UNCHANGED << environ, now, current_user, db_list, conn_serial,
                    user_set, cls_sql, cls_verdict, requests, writers >>

\* ExecutionLogger.query_logs(user=..., limit=...)
ClassQueryLogs(t, user, limit) ==
    /\ IF callable_on_class("query_logs")
       THEN ApplyWorld(t, query_logs(World(t), user, NoTime, NoTime, limit,
                                     TRUE))
       ELSE UNCHANGED << logger, exe_logs, output_list, file_log,
                         table_rows, wrote >>
    /\ ret' = [ thread |-> t, op |-> "ExecutionLogger.query_logs",
                raised |-> ~callable_on_class("query_logs") ]
    /\ UNCHANGED << environ, now, current_user, db_list, conn_serial,
                    user_set, cls_sql, cls_verdict, requests, writers >>

ClassNext ==
    \/ \E t \in Threads, time_cost_ms \in TimeCostArgs :
           ClassWriteLog(t, "json", time_cost_ms)
    \/ \E t \in Threads, user \in UserArgs, limit \in LimitArgs :
           ClassQueryLogs(t, user, limit)
    \/ \E t \in Threads : SetCurrentUser(t, UserOf[t], TRUE)
    \/ \E t \in Threads, time_cost_ms \in TimeCostArgs :
           WriteLog(t, "json", time_cost_ms, TRUE, TRUE)
    \/ \E t \in Threads : ClearThreadLogs(t, TRUE)
    \/ Tick

SpecClass == ThreadsInit /\ [][ClassNext]_vars


(***************************************************************************)
(* sql_query with what can go wrong around it: a database name that is    *)
(* not configured, given or written in the statement, a logger            *)
(* configuration that is invalid, a log store that does not initialise,   *)
(* a statement that is not a str, and every outcome of the engine.        *)
(***************************************************************************)
SafeTexts == { SelectOne, SelectEvents, DropTable, NotAString }

SafeNext ==
    \/ \E sql \in SafeTexts, db_name \in { None, NoDb },
          engine \in EngineOutcomes, init_ok \in BOOLEAN :
           SqlQuery(MainThread, sql, db_name, None, engine, init_ok, TRUE)
    \/ ClearOutput(MainThread)
    \/ ClearDbList(MainThread)

SpecSafe == LogInit /\ [][SafeNext]_vars


(***************************************************************************)
(* The connection registry of one thread under calls that succeed and     *)
(* calls that fail at every step, and clear_db_list.                      *)
(***************************************************************************)
RegistryNext ==
    \/ \E engine \in EngineOutcomes :
           Execute(MainThread, InsertOrder, None, None, engine, TRUE, TRUE)
    \/ \E engine \in EngineOutcomes :
           ExecuteMany(MainThread, InsertOrder, << 1 >>, None, engine, TRUE,
                       TRUE)
    \/ \E db_name \in ConfiguredNames, engine \in EndOutcomes :
           Commit(MainThread, db_name, engine)
    \/ \E db_name \in ConfiguredNames, engine \in EndOutcomes :
           Rollback(MainThread, db_name, engine)
    \/ ClearDbList(MainThread)

SpecRegistry == ThreadsInit /\ [][RegistryNext]_vars

(***************************************************************************)
(*                              Properties                                 *)
(***************************************************************************)

(***************************************************************************)
(* C1. A statement with a forbidden keyword as a whole word outside        *)
(* comments is never allowed by the classifier, also when the keyword      *)
(* comes after a ';' in a statement that begins with select, with,         *)
(* explain or pragma.                                                      *)
(***************************************************************************)
C1_ForbiddenKeywordDenied ==
    (cls_verdict # "none" /\ has_forbidden_keyword(sql_lower_of(cls_sql)))
        => cls_verdict = "deny"

\* the last element of a non-empty sequence
Last(s) == s[Len(s)]

\* the user of a record query_logs returns: the files name it user, the
\* tables user_name
record_user(r) == IF "user" \in DOMAIN r THEN r.user ELSE r.user_name

\* the user write_log is to record for a thread, from what the thread set
expected_user(t) == IF user_set[t] = Unset THEN "system" ELSE user_set[t]

(***************************************************************************)
(* C2. Every execute or executemany call that reaches the connection       *)
(* layer, whether the statement succeeds or raises, adds exactly one       *)
(* entry of command_type "sql" at the end of the calling thread's buffer,  *)
(* so that the buffer holds the entries of the calls since the last clear  *)
(* in call order. Stated for the environments in which the logger's        *)
(* configuration is valid.                                                 *)
(***************************************************************************)
C2_EveryStatementBuffered ==
    [][ (/\ ret'.op \in { "execute", "executemany" }
         /\ ret'.reached
         /\ _validate_config)
            => /\ Len(exe_logs'[ret'.thread]) > 0
               /\ exe_logs'[ret'.thread] =
                      Append(exe_logs[ret'.thread],
                             Last(exe_logs'[ret'.thread]))
               /\ Last(exe_logs'[ret'.thread]).command_type = "sql" ]_vars

(***************************************************************************)
(* C3. No exception escapes execute, executemany, commit and rollback:     *)
(* whatever the statement, the database name, the outcome of the engine    *)
(* and the state of the logger, the call returns a result, and a result    *)
(* with success false when something failed.                               *)
(***************************************************************************)
C3_NoExceptionEscapes ==
    ret.op \in { "execute", "executemany", "commit", "rollback" }
        => ~ret.raised

(***************************************************************************)
(* C4. Every write_log call appends one entry to the calling thread's      *)
(* buffer and returns a boolean without raising, whether the write to the  *)
(* store succeeds or fails, whether or not the store initialised, and      *)
(* whether or not the result can be serialised. Stated for the             *)
(* environments in which the logger's configuration is valid.              *)
(***************************************************************************)
C4_WriteLogAlwaysBuffers ==
    [][ (ret'.op = "write_log" /\ now' = now /\ _validate_config)
            => /\ ~ret'.raised
               /\ ret'.value \in BOOLEAN
               /\ Len(exe_logs'[ret'.thread]) =
                      Len(exe_logs[ret'.thread]) + 1 ]_vars

(***************************************************************************)
(* C5, as the specification states it. Within one thread every call after  *)
(* the first gets the same connection handle for a name: a thread opens    *)
(* at most one connection to a database, ever; and the connection a call   *)
(* uses is one its own thread opened.                                      *)
(***************************************************************************)
C5_OneConnectionEver ==
    /\ \A t \in Threads : \A n \in ConfiguredNames : conn_serial[t][n] <= 1
    /\ \A t \in Threads : \A n \in DOMAIN db_list[t] :
           db_list[t][n].connection # None
               => db_list[t][n].connection.owner = t

(***************************************************************************)
(* C5, amended. A thread's registry holds at most one connection per name, *)
(* and a cached connection stays the one every later call of that thread   *)
(* gets until the thread calls clear_db_list, after which the next call    *)
(* opens a new one; a connection is only ever in the registry of, and      *)
(* used by, the thread that opened it.                                     *)
(***************************************************************************)
C5_HandleOwned ==
    /\ \A t \in Threads : \A n \in DOMAIN db_list[t] :
           db_list[t][n].connection # None
               => /\ db_list[t][n].connection.owner = t
                  /\ db_list[t][n].connection.db_name = n
                  /\ db_list[t][n].connection.serial = conn_serial[t][n]
    /\ (ret.op \in { "execute", "commit" } /\ ret.connection # None)
           => ret.connection.owner = ret.thread

C5_HandleKept ==
    \A t \in Threads : \A n \in DOMAIN db_list[t] :
        (db_list[t][n].connection # None
             /\ ~(ret'.op = "clear_db_list" /\ ret'.thread = t))
            => /\ n \in DOMAIN db_list'[t]
               /\ db_list'[t][n].connection = db_list[t][n].connection

C5_SameHandleUntilCleared == []C5_HandleOwned /\ [][C5_HandleKept]_vars

\* a thread got its cached connection again, and a thread that had cleared
\* its registry got a second connection, while the other thread holds its
\* own
C5_Witness ==
    /\ ret.op = "commit"
    /\ ret.connection # None
    /\ ret.connection = db_list[ret.thread][ret.connection.db_name].connection
    /\ \E t \in Threads : \E n \in DOMAIN db_list[t] :
           /\ db_list[t][n].connection # None
           /\ db_list[t][n].connection.serial = 2
    /\ \A t \in Threads : \E n \in DOMAIN db_list[t] :
           db_list[t][n].connection # None

(***************************************************************************)
(* C6. With two threads writing entries for different users, the buffer    *)
(* of each thread holds exactly the entries that thread wrote, and a       *)
(* query filtered by a user returns no entry of another user.              *)
(***************************************************************************)
C6_ThreadsSeeTheirOwnEntries ==
    /\ \A t \in Threads : get_thread_logs(t) = wrote[t]
    /\ (ret.op = "query_logs" /\ ret.user # "")
           => \A i \in DOMAIN ret.value : record_user(ret.value[i]) = ret.user

\* both threads wrote an entry for their user, both entries are in the
\* store, and a query for alice returned something
C6_Witness ==
    /\ ret.op = "query_logs"
    /\ ret.user = "alice"
    /\ ret.value # << >>
    /\ \E i \in DOMAIN file_log : file_log[i].user = "bob"
    /\ \E i \in DOMAIN file_log : file_log[i].user = "alice"
    /\ \E i \in DOMAIN exe_logs["t1"] : exe_logs["t1"][i].user = "alice"
    /\ \E i \in DOMAIN exe_logs["t2"] : exe_logs["t2"][i].user = "bob"

C9_RejectedStatementNotExecuted ==
    [][ (ret'.op = "sql_query" /\ ~passes_security_check(ret'.sql))
            => /\ db_list' = db_list
               /\ conn_serial' = conn_serial
               /\ exe_logs' = exe_logs
               /\ logger' = logger
               /\ file_log' = file_log
               /\ table_rows' = table_rows
               /\ output_list' =
                      [output_list EXCEPT ![ret'.thread] =
                           Append(@, [Title |-> "SQL Security Check",
                                      Type  |-> "error"])]
               /\ ~ret'.raised
               /\ ~ret'.success
               /\ ret'.shape = "rejected" ]_vars

\* sql_query rejected a statement after the thread had opened a connection
\* and logged a statement
C9_Witness ==
    /\ ret.op = "sql_query"
    /\ ret.shape = "rejected"
    /\ ~passes_security_check(ret.sql)
    /\ exe_logs[ret.thread] # << >>
    /\ \E n \in DOMAIN db_list[ret.thread] :
           db_list[ret.thread][n].connection # None
    /\ Last(output_list[ret.thread]).Title = "SQL Security Check"

(***************************************************************************)
(* C10. Round trip on the sqlite, mysql and file stores: when the store    *)
(* initialised, a write_log of a result that can be serialised, with no    *)
(* input/output failure, returns true, and a query_logs made next whose    *)
(* filters match the entry returns a record with the same command,         *)
(* time_cost_ms and user.                                                  *)
(***************************************************************************)
C10_RoundTrip ==
    (/\ ret.op = "write_log"
     /\ ~ret.raised
     /\ ret.buffered
     /\ ~ret.io_error
     /\ logger[ret.thread].ready)
        => LET e == Last(exe_logs[ret.thread])
               found == _query_logs_impl(World(ret.thread), e.user, NoTime,
                                         NoTime, 100).value
           IN  /\ ret.value = TRUE
               /\ \E i \in DOMAIN found :
                      /\ found[i].command = e.command
                      /\ found[i].time_cost_ms = e.time_cost_ms
                      /\ record_user(found[i]) = e.user

\* the execution time of a record query_logs returns: the files name it
\* timestamp, the tables execution_time
record_time(r) ==
    IF "timestamp" \in DOMAIN r THEN r.timestamp ELSE r.execution_time

\* every record of found passes the filters of the last query, and there
\* are no more of them than its limit
within_filters(found) ==
    /\ Len(found) <= ret.limit
    /\ \A i \in DOMAIN found :
           /\ ret.user # "" => record_user(found[i]) = ret.user
           /\ ret.start_time # NoTime => record_time(found[i]) >= ret.start_time
           /\ ret.end_time # NoTime => record_time(found[i]) <= ret.end_time

(***************************************************************************)
(* C11. On the files and on the table, every record a query returns       *)
(* passes all the filters it was given (the user is equal, the execution  *)
(* time is between start_time and end_time), there are at most limit      *)
(* records, and a query for a user with a start_time later than that      *)
(* user's only entry returns none.                                         *)
(***************************************************************************)
C11_FiltersConjunctive ==
    ret.op = "query_stores" =>
        /\ within_filters(ret.file)
        /\ within_filters(ret.table)
        /\ \A u \in Users :
               ( /\ ret.user = u
                 /\ ret.start_time # NoTime
                 /\ Cardinality({ i \in DOMAIN file_log :
                                     file_log[i].user = u }) = 1
                 /\ \A i \in DOMAIN file_log :
                        file_log[i].user = u
                            => file_log[i].timestamp < ret.start_time )
                   => ret.file = << >> /\ ret.table = << >>

\* a query for alice between two instants found her entry on both stores,
\* which also hold an entry of hers before start_time and one of bob
\* between the two instants
C11_Witness ==
    /\ ret.op = "query_stores"
    /\ ret.user = "alice"
    /\ ret.start_time = 1
    /\ ret.end_time = 2
    /\ Len(ret.file) = 1
    /\ Len(ret.table) = 1
    /\ \E i \in DOMAIN file_log :
           file_log[i].user = "alice" /\ file_log[i].timestamp = 0
    /\ \E i \in DOMAIN file_log :
           file_log[i].user = "bob" /\ file_log[i].timestamp \in 1..2

(***************************************************************************)
(* C12. For the same history and the same arguments the files and the     *)
(* table answer a query alike: the matching entries with the latest       *)
(* execution times, the latest first, at most limit of them.              *)
(***************************************************************************)
C12_BackendsAgree ==
    ret.op = "query_stores" =>
        /\ Len(ret.file) = Len(ret.table)
        /\ \A i \in DOMAIN ret.file :
               /\ record_user(ret.file[i]) = record_user(ret.table[i])
               /\ record_time(ret.file[i]) = record_time(ret.table[i])

target_name(r) ==
    IF r.op \in { "commit", "rollback" } THEN r.db_name
    ELSE _resolve_db_name(r.sql, r.db_name)

C15_ShapeFromLeadingWord ==
    [][ (ret'.op = "execute" /\ ret'.success)
            => IF LeadingWord[ret'.sql] = "SELECT"
               THEN /\ ret'.shape = "rows"
                    /\ ~ret'.committed
                    /\ ret'.calls = << "execute" >>
               ELSE /\ ret'.shape = "count"
                    /\ ret'.committed
                    /\ ret'.calls = << "execute", "commit" >> ]_vars

\* a select in lower case behind whitespace returned its rows, and a query
\* that begins with WITH went down the other path before it
C15_Witness ==
    /\ ret.op = "execute"
    /\ ret.sql = SelectPadded
    /\ ret.success
    /\ ret.shape = "rows"
    /\ ~ret.committed
    /\ \E i \in 1..Len(file_log) :
           /\ file_log[i].command = WithQuery
           /\ file_log[i].result = "count"

\* a statement call that commits: executemany, and execute of a statement
\* that does not begin with SELECT
mutating(r) ==
    r.op = "executemany" \/ LeadingWord[r.sql] # "SELECT"

(***************************************************************************)
(* C16: commit and rollback are never invoked automatically except for    *)
(* the commit behind a successful mutating execute: an execute or         *)
(* executemany that failed has invoked neither commit nor rollback on the *)
(* connection, and an execute that begins with SELECT invokes neither.    *)
(***************************************************************************)
C16_NoCommitUnlessSucceeded ==
    [][ ret'.op \in { "execute", "executemany" }
            => /\ "rollback" \notin Range(ret'.calls)
               /\ ~ret'.success => "commit" \notin Range(ret'.calls)
               /\ ~mutating(ret') => "commit" \notin Range(ret'.calls) ]_vars

(***************************************************************************)
(* C16, amended: rollback is never invoked by execute or executemany, and *)
(* commit is invoked exactly when the statement of a mutating call ran,   *)
(* once and right behind it: a call that failed to connect or whose       *)
(* statement raised has invoked neither, a call whose own commit raised   *)
(* has invoked that commit and no rollback, and an execute that begins    *)
(* with SELECT invokes neither.                                            *)
(***************************************************************************)
C16_CommitOnlyBehindStatementThatRan ==
    [][ ret'.op \in { "execute", "executemany" }
            => /\ "rollback" \notin Range(ret'.calls)
               /\ IF mutating(ret') /\ ret'.failed_at \in { "none", "commit" }
                  THEN ret'.calls = << ret'.op, "commit" >>
                  ELSE "commit" \notin Range(ret'.calls)
               /\ ret'.failed_at = "commit" => ~ret'.success ]_vars

\* an insert whose statement raised: nothing but the statement was called
\* on the connection, which stays open
C16_Witness ==
    /\ ret.op = "execute"
    /\ ret.sql = InsertOrder
    /\ ~ret.success
    /\ ret.failed_at = "statement"
    /\ ret.calls = << "execute" >>
    /\ ret.connection # None

\* the call commit_all and rollback_all make on each connection
call_of(op) == IF op = "commit_all" THEN "commit" ELSE "rollback"

(***************************************************************************)
(* C17: commit_all and rollback_all act on exactly the databases of the   *)
(* calling thread's registry: they return one result for each cached      *)
(* name, each reported on its own; every database is attempted whatever   *)
(* happened to the others; and the registries and connections of the      *)
(* other threads are left alone.                                           *)
(***************************************************************************)
C17_AllOfThisThreadOnly ==
    [][ ret'.op \in { "commit_all", "rollback_all" }
            => /\ ~ret'.raised
               /\ DOMAIN ret'.results = DOMAIN db_list[ret'.thread]
               /\ \A n \in DOMAIN ret'.results :
                      \/ /\ ret'.results[n].calls = << call_of(ret'.op) >>
                         /\ db_list'[ret'.thread][n].connection # None
                      \/ /\ ret'.results[n].calls = << >>
                         /\ ~ret'.results[n].success
                         /\ db_list[ret'.thread][n].connection = None
                         /\ db_list'[ret'.thread][n].connection = None
               /\ \A u \in Threads \ { ret'.thread } :
                      /\ db_list'[u] = db_list[u]
                      /\ conn_serial'[u] = conn_serial[u] ]_vars

\* commit_all of a thread with two cached databases: the commit of one
\* failed, the commit of the other succeeded, and the other thread holds a
\* connection of its own
C17_Witness ==
    /\ ret.op = "commit_all"
    /\ DOMAIN ret.results = TxNames
    /\ \E n, k \in TxNames :
           /\ ~ret.results[n].success
           /\ ret.results[n].calls = << "commit" >>
           /\ ret.results[k].success
    /\ \E u \in Threads \ { ret.thread } :
           \E n \in DOMAIN db_list[u] : db_list[u][n].connection # None

(***************************************************************************)
(* C18: the wrappers commit(db_name) and rollback(db_name) of db_exe,     *)
(* called with db_name "all", which is the default, commit or roll back   *)
(* every connection of the calling thread and return an operation result  *)
(* for it instead of raising.                                              *)
(***************************************************************************)
C18_WrapperEndsAllByDefault ==
    [][ ( /\ ret'.op \in { "db_exe_commit", "db_exe_rollback" }
          /\ ret'.db_name = All )
            => /\ ~ret'.raised
               /\ "results" \in DOMAIN ret'
               /\ DOMAIN ret'.results = DOMAIN db_list[ret'.thread]
               /\ \A n \in DOMAIN ret'.results :
                      ret'.results[n].calls \in
                          { << >>,
                            << IF ret'.op = "db_exe_commit"
                               THEN "commit" ELSE "rollback" >> } ]_vars

(***************************************************************************)
(* C19: when the storage of the log fails to initialise, the construction *)
(* of the logger does not raise and the failure is shown on the output    *)
(* channel; every later write_log returns false, still appends its entry  *)
(* to the thread buffer, stores nothing and does not raise; and           *)
(* query_logs returns an empty sequence.                                   *)
(***************************************************************************)
C19_UninitialisedLoggerDegrades ==
    [][ ( /\ logger'[MainThread] # NoLogger
          /\ ~logger'[MainThread].ready
          /\ now' = now )
            => /\ ~ret'.raised
               /\ logger[MainThread] = NoLogger =>
                      \E i \in 1..Len(output_list'[MainThread]) :
                          output_list'[MainThread][i] =
                              [Title |-> "Logger Init Error", Type |-> "error"]
               /\ ret'.op = "write_log" =>
                      /\ ret'.value = FALSE
                      /\ Len(exe_logs'[MainThread]) =
                             Len(exe_logs[MainThread]) + 1
                      /\ file_log' = file_log
                      /\ table_rows' = table_rows
               /\ ret'.op = "query_logs" => ret'.value = << >> ]_vars

(***************************************************************************)
(* C20: with the mysql log store selected and one of host, port, user and *)
(* password missing, the configuration error is raised when the process   *)
(* starts: such a process never gets to handle a call, so no thread meets *)
(* the error on its first use of the logger. The initial state is the     *)
(* process once startup_event has run, which constructs no logger.        *)
(***************************************************************************)
C20_ConfigErrorAtStartup ==
    (environ.LOG_TYPE = "mysql" /\ ~environ.mysql_vars) => ret.op = "none"

(***************************************************************************)
(* C21: at every moment all the loggers of the process, one for each      *)
(* thread that has used the logger, are of the same kind of store, also   *)
(* when LOG_TYPE changes between the first uses of two threads.            *)
(***************************************************************************)
C21_OneBackendKind ==
    \A t, u \in Threads :
        (logger[t] # NoLogger /\ logger[u] # NoLogger)
            => logger[t].log_type = logger[u].log_type

(***************************************************************************)
(* C22: the time_cost_ms of the entry an execute or executemany writes is *)
(* the time of the statement alone, whether the call succeeds or fails:   *)
(* the time it took to open the connection is not part of it.             *)
(***************************************************************************)
C22_StatementTimeOnly ==
    [][ ( /\ ret'.op \in { "execute", "executemany" }
          /\ exe_logs'[ret'.thread] # exe_logs[ret'.thread] )
            => Last(exe_logs'[ret'.thread]).time_cost_ms =
                   IF ret'.failed_at = "connect" THEN 0 ELSE StatementMs ]_vars

(***************************************************************************)
(* C23: the entry point sets current_user before the tool function        *)
(* executes its first statement, so every entry attached to the response  *)
(* of a request carries the user of that request.                         *)
(***************************************************************************)
C23_EntriesCarryRequestUser ==
    \A r \in DOMAIN requests :
        requests[r].phase = "done"
            => \A i \in DOMAIN requests[r].response :
                   requests[r].response[i].user = requests[r].user

(***************************************************************************)
(* C24: the execution_logs attached to the response of a request are      *)
(* exactly the entries written for the statements of that request, in     *)
(* the order they were executed, also while several requests are in       *)
(* flight.                                                                 *)
(***************************************************************************)
C24_ResponseHoldsOwnEntries ==
    \A r \in DOMAIN requests :
        requests[r].phase = "done"
            => requests[r].response = requests[r].wrote

(***************************************************************************)
(* C25: clear_thread_logs is idempotent: whatever the thread did before   *)
(* (nothing at all, a write, or another clear_thread_logs), the call does *)
(* not raise and get_thread_logs is empty after it.                       *)
(***************************************************************************)
C25_ClearNeverRaisesAndEmpties ==
    ret.op = "clear_thread_logs"
        => /\ ~ret.raised
           /\ get_thread_logs(ret.thread) = << >>

(***************************************************************************)
(* C26: comment stripping is idempotent and order-independent: for the    *)
(* text handed to the classifier, block comments then line comments (the  *)
(* classifier), line comments then block comments (the database-name      *)
(* parser) and either of them applied twice give the same text.           *)
(***************************************************************************)
C26_StrippingOrderIndependent ==
    cls_verdict # "none" =>
        LET classifier == strip_line_comments(strip_block_comments(cls_sql))
            parser     == strip_block_comments(strip_line_comments(cls_sql))
        IN  /\ classifier = parser
            /\ strip_line_comments(strip_block_comments(classifier))
                   = classifier
            /\ strip_block_comments(strip_line_comments(parser)) = parser

(***************************************************************************)
(* C27: in the file backend a malformed line is skipped and never aborts  *)
(* a query: the result is the well-formed lines that match the filters,   *)
(* newest file first and in file order, up to limit, whatever malformed   *)
(* lines stand before them.                                                *)
(***************************************************************************)
C27_MalformedLinesSkipped ==
    ret.op = "query_file" =>
        ret.value =
            Take(SelectSeq(
                     SelectSeq(file_log, LAMBDA l : l.day = 1)
                         \o SelectSeq(file_log, LAMBDA l : l.day = 0),
                     LAMBDA l : /\ l.form = "entry"
                                /\ file_line_matches(l, ret.user,
                                       ret.start_time, ret.end_time)),
                 ret.limit)

occurs_in(s, p) == \E i \in 1..Len(s) : StartsAt(s, i, p)

(***************************************************************************)
(* C29: the entry of an executemany call, on success and on failure:      *)
(* its command names the batch size, shows the first three parameter      *)
(* tuples and no later one, and ends with an ellipsis exactly when the    *)
(* batch has more than three tuples.                                      *)
(***************************************************************************)
C29_BatchPreviewTruncated ==
    (ret.op = "executemany_batch" /\ ~ret.raised) =>
        /\ Len(ret.logged) = 1
        /\ startswith(ret.logged[1].command,
               << "E", "X", "E", "C", "U", "T", "E", "M", "A", "N", "Y", ":",
                  " " >> \o InsertOrder
               \o << " ", "(", "b", "a", "t", "c", "h", "_", "s", "i", "z",
                     "e", ":", " " >>
               \o str_int(Len(ret.params_list)) \o << ")" >>)
        /\ \A k \in DOMAIN ret.params_list :
               occurs_in(ret.logged[1].command,
                         repr_tuple(ret.params_list[k])) <=> k <= 3
        /\ occurs_in(ret.logged[1].command, << ".", ".", "." >>)
               <=> Len(ret.params_list) > 3

\* a batch of more than three tuples failed and its entry was written
C29_Witness ==
    /\ ret.op = "executemany_batch"
    /\ ~ret.raised
    /\ ~ret.success
    /\ Len(ret.params_list) > 3
    /\ Len(ret.logged) = 1

(***************************************************************************)
(* C30: get_instance returns to a thread the instance that thread         *)
(* constructed: the one it already has when it has one, a new one         *)
(* otherwise, which it keeps; so every call within one thread gives the   *)
(* same instance, distinct threads have distinct instances, and no        *)
(* instance reaches a thread that did not construct it.                   *)
(***************************************************************************)
C30_OneInstancePerThread ==
    [][ (ret'.op = "get_instance" /\ ~ret'.raised) =>
            /\ ret'.instance # NoLogger
            /\ ret'.instance.owner = ret'.thread
            /\ logger[ret'.thread] # NoLogger =>
                   ret'.instance = logger[ret'.thread]
            /\ logger'[ret'.thread] = ret'.instance
            /\ \A u \in Threads \ { ret'.thread } : logger'[u] = logger[u]
      ]_vars

\* a thread asked again and got the instance it had, while the other
\* thread has an instance of its own
C30_Witness ==
    /\ ret.op = "get_instance"
    /\ ~ret.raised
    /\ ~ret.constructed
    /\ \A t \in Threads : logger[t] # NoLogger /\ logger[t].owner = t

(***************************************************************************)
(* C31: sql_query admits DESCRIBE, DESC and SHOW statements as read-only  *)
(* queries: they pass the security check and are handed to execute.       *)
(***************************************************************************)
C31_LayoutStatementsAdmitted ==
    (ret.op = "sql_query"
         /\ ret.sql \in { ShowTables, DescTable, DescribeTable })
        => ret.failed_at # "check"

(***************************************************************************)
(* C32: ExecutionLogger.write_log and ExecutionLogger.query_logs can be   *)
(* called on the class, in the static form, and do not raise.             *)
(***************************************************************************)
C32_StaticFormDoesNotRaise ==
    ret.op \in { "ExecutionLogger.write_log", "ExecutionLogger.query_logs" }
        => ~ret.raised

(***************************************************************************)
(* C33: when a statement given without a database name holds several      *)
(* qualified table references, the database resolved is that of the       *)
(* reference that stands first in the statement text, whichever keyword   *)
(* introduces it.                                                         *)
(***************************************************************************)
C33_FirstReferenceInTextWins ==
    (ret.op = "resolve_db_name" /\ ret.db_name = None) =>
        \A c \in TwoReferenceCases : c.sql = ret.sql => ret.value = c.db

(***************************************************************************)
(* C34: the execution_logs table a relational backend creates when it     *)
(* initialises has every column the write path inserts into, command_type *)
(* among them, so that an insert never fails for a missing column.        *)
(***************************************************************************)
C34_TableHasInsertedColumns ==
    \A t \in Threads :
        (logger[t].ready /\ logger[t].log_type \in { "sqlite", "mysql" })
            => /\ insert_columns \subseteq table_columns
               /\ "command_type" \in table_columns

(***************************************************************************)
(* C35: sql_query never raises: whatever the database name, the logger    *)
(* configuration and the statement, it returns a result, and a result     *)
(* that is not a success comes with an error message on the output        *)
(* channel.                                                               *)
(***************************************************************************)
C35_SqlQueryNeverRaises ==
    ret.op = "sql_query" =>
        /\ ~ret.raised
        /\ ret.success \in BOOLEAN
        /\ ~ret.success =>
               /\ output_list[ret.thread] # << >>
               /\ Last(output_list[ret.thread]).Type = "error"
               /\ ret.shape \in { "error", "rejected" }

\* sql_query was given a number for a statement under a logger
\* configuration that is invalid, and returned a failure
C35_Witness ==
    /\ ret.op = "sql_query"
    /\ ret.sql = NotAString
    /\ ~_validate_config
    /\ ~ret.raised
    /\ ~ret.success

(***************************************************************************)
(* C36: every statement the query-only gate of sql_query admits is        *)
(* executed on the row-fetching path: a successful result carries data    *)
(* and columns, and no commit is issued on the connection.                *)
(***************************************************************************)
C36_AdmittedStatementsFetchRows ==
    (ret.op = "sql_query" /\ passes_security_check(ret.sql)) =>
        /\ \A i \in DOMAIN ret.calls : ret.calls[i] # "commit"
        /\ ret.success => ret.shape = "rows"

(***************************************************************************)
(* C37: an entry of a thread's connection registry stays there, with the  *)
(* connection handle it has, across execute, executemany, commit and      *)
(* rollback, failing or not; clear_db_list alone removes entries: it      *)
(* empties the registry and closes every connection it held, and the      *)
(* next call for a name gets a new entry with a connection never used     *)
(* before.                                                                *)
(***************************************************************************)
C37_RegistryKeepsEntries ==
    [][ \A t \in Threads :
          /\ (ret'.op = "clear_db_list" /\ ret'.thread = t) =>
                 /\ db_list'[t] = << >>
                 /\ ret'.closed =
                        { db_list[t][n].connection : n \in DOMAIN db_list[t] }
                            \ { None }
          /\ ~(ret'.op = "clear_db_list" /\ ret'.thread = t) =>
                 \A n \in DOMAIN db_list[t] :
                     /\ n \in DOMAIN db_list'[t]
                     /\ db_list[t][n].connection # None =>
                            db_list'[t][n].connection
                                = db_list[t][n].connection
          /\ \A n \in DOMAIN db_list'[t] \ DOMAIN db_list[t] :
                 db_list'[t][n].connection # None =>
                     db_list'[t][n].connection.serial = conn_serial[t][n] + 1
      ]_vars

\* a statement failed on a cached connection opened after clear_db_list
\* had closed an earlier one, and the entry still holds that connection
C37_Witness ==
    /\ ret.op = "execute"
    /\ ret.failed_at = "statement"
    /\ ret.connection # None
    /\ ret.connection.serial = 2
    /\ \E n \in DOMAIN db_list[ret.thread] :
           db_list[ret.thread][n].connection = ret.connection

(***************************************************************************)
(* C38: clear_thread_logs changes the calling thread's log buffer and     *)
(* nothing else: the current user, the connection registry and the        *)
(* output channel of the thread, the log files and the log table, and     *)
(* the buffer, user, registry and output channel of every other thread    *)
(* are what they were before the call.                                    *)
(***************************************************************************)
C38_ClearChangesOnlyTheBuffer ==
    [][ ret'.op = "clear_thread_logs" =>
          /\ current_user' = current_user
          /\ db_list' = db_list
          /\ output_list' = output_list
          /\ file_log' = file_log
          /\ table_rows' = table_rows
          /\ \A u \in Threads \ { ret'.thread } :
                 exe_logs'[u] = exe_logs[u]
      ]_vars

====
